---- MODULE Spec2Model ----
(***************************************************************************)
(* Model of scripts/render_video.js (the textfile-based renderer): text    *)
(* normalisation, line wrapping, filter-graph compilation, the ffmpeg      *)
(* invocation and the temporary text files of one batch.                   *)
(*                                                                         *)
(* A JavaScript string is modelled as a sequence of code points; its       *)
(* .length is the number of UTF-16 units (Len16), which differs from the   *)
(* number of code points for code points above U+FFFF.                     *)
(***************************************************************************)
EXTENDS Integers, Sequences, FiniteSets, TLC

VARIABLES
    \* ---- text functions (normalize / wrapByLimit) applied to one input
    text,       \* the raw input string
    str,        \* the string the next text function is applied to
    prev,       \* the value of str before the last normalize
    limit,      \* wrapByLimit's limit argument
    isCJK,      \* wrapByLimit's isCJK argument (TRUE = glyph mode)
    lines,      \* the result of the last wrapByLimit
    tpc,        \* position of the text pipeline
    \* ---- one run of main() over the entries of a content document
    nEntries,   \* number of entries of the content document
    entry,      \* the entry the loop is at (e)
    lang,       \* LANG
    tLimit,     \* title wrap limit of the resolved style
    iLimit,     \* item wrap limit of the resolved style
    idx,        \* 1-based position of the entry being rendered
    pc,         \* position of main()
    tmpRoot,    \* TRUE while the mkdtemp directory exists
    files,      \* the files that exist inside the mkdtemp directory
    textFiles,  \* the textFiles array of the current entry
    written,    \* what makeTxt wrote, in the order of textFiles
    titleLines, \* the wrapped title of the current entry
    itemLines,  \* the bullet lines of the current entry
    parts,      \* the filter graph nodes of the current entry
    mapArg,     \* the label given to ffmpeg's first -map
    status,     \* exit status of the last ffmpeg run (-1: none yet)
    outputs,    \* the .mp4 / .json files present in the output directory
    spawns,     \* number of ffmpeg invocations of the run
    rendered,   \* the sequence numbers whose video file ffmpeg has written
    log,        \* the console lines of the run: [tag, val]
    \* font resolution
    disk,       \* the font files that exist
    fLang,      \* the language the font is resolved for
    styleFont,  \* S.font of the resolved style (NoPath: not set)
    font,       \* the result of fontFor (NoPath: null)
    fontPrev,   \* the result of the previous resolution
    fpc,        \* "idle", "input", "once", "twice", "nofont"
    \* style resolution
    styles,     \* st.styles of the style document, as main holds it
    stLoaded,   \* st.styles as yaml.load returned it
    sLang,      \* LANG of the run
    merged,     \* S
    cfg,        \* the resolved numeric fields
    geo,        \* the positions
    spc,        \* "idle", "loaded", "resolved", "laid"
    \* sidecar and upload snippet
    cm,         \* the values of the channel meta file
    mEntry,     \* the content entry: [title, tags]
    sidecar,    \* the sidecar record render_video.js wrote
    hasSidecar, \* whether the uploader finds the sidecar file
    snippet,    \* the snippet youtube_upload.js sends
    mpc,        \* "idle", "entry", "sidecar", "snippet"
    \* wrap and layout of one entry
    layEntry,   \* the entry: [title, items]
    layLimT,    \* tLimit
    layLimI,    \* iLimit
    layCjk,     \* isCJK
    layTitle,   \* titleLines
    layItems,   \* itemLines
    layY,       \* the y of every title line and of every item line
    lpc,        \* "idle", "entry", "wrapped", "placed"
    \* youtube_upload.js: one run of main
    uMode,      \* "file" (--file=) or "batch"
    uLangOk,    \* whether detectLangFromPath finds a language in the paths
    uBatch,     \* the files to upload, in order
    ui,         \* the place of the current file in uBatch
    uTries,     \* the outcomes of the insert calls for the current file
    uVid,       \* the id uploadOne returned for the current file ("": none)
    uErr,       \* the error uploadOne threw for the current file
    uOk,        \* the files for which uploadOne returned an id
    uLoc,       \* for each file the directories that hold it
    uDone,      \* done
    uReported,  \* the count of the "[done]" line (-1: not printed)
    upc,        \* "idle", "start", "insert", "settle", "report", "done", "crashed"
    \* seed_to_yaml.js: the seeds of the runs of main
    poolAll,    \* the seeds under data/seeds, each [cat, text]
    usedFile,   \* the content of data/_state/used_seeds.json
    COUNT,      \* --count of the current run
    loaded,     \* what loadUsed returned in the current run
    wasReset,   \* whether the run emptied used
    sRemaining, \* remaining inside sampleWithCategoryWeights
    sPicks,     \* picks
    sdpc,       \* "idle", "start", "sample", "saved"
    \* seed_to_yaml.js: generateOne for one pick of a run
    PROFILE,    \* "solo" or "team"
    gSeed,      \* the text of the pick
    gCalls,     \* the responses of the model for the pick
    gOut,       \* the entry generateOne returned
    gFrom,      \* "model" or "fallback"
    gEntries,   \* entries
    gpc         \* "idle", "ask", "returned", "pushed"

textVars == <<text, str, prev, limit, isCJK, lines, tpc>>
mainVars == <<nEntries, entry, lang, tLimit, iLimit, idx, pc, tmpRoot, files,
              textFiles, written, titleLines, itemLines, parts, mapArg,
              status, outputs, spawns, rendered, log>>
fontVars == <<disk, fLang, styleFont, font, fontPrev, fpc>>
styleVars == <<styles, stLoaded, sLang, merged, cfg, geo, spc>>
metaVars == <<cm, mEntry, sidecar, hasSidecar, snippet, mpc>>
layVars == <<layEntry, layLimT, layLimI, layCjk, layTitle, layItems, layY, lpc>>
upVars == <<uMode, uLangOk, uBatch, ui, uTries, uVid, uErr, uOk, uLoc, uDone,
            uReported, upc>>
seedVars == <<poolAll, usedFile, COUNT, loaded, wasReset, sRemaining, sPicks, sdpc>>
genVars == <<PROFILE, gSeed, gCalls, gOut, gFrom, gEntries, gpc>>
moreVars == <<layVars, upVars, seedVars, genVars>>
oldVars == <<textVars, mainVars, fontVars, styleVars, metaVars>>
auxVars == <<fontVars, styleVars, metaVars, moreVars>>
vars == <<textVars, mainVars, auxVars>>

----------------------------------------------------------------------------
(* Bounds of the model *)

\* longest input string given to normalize / wrapByLimit
MaxLen == 4
\* largest wrap limit tried
MaxLimit == 3

----------------------------------------------------------------------------
(* Code points *)

\* code points the source names
Space == 32
DQuote == 34
SQuote == 39
NBSP == 160         \* U+00A0
BOM == 65279        \* U+FEFF

\* code points of the sample inputs: a, e, U+0301 COMBINING ACUTE ACCENT and
\* its compositions U+00E1 and U+00E9, U+0001 (a C0 control), U+201C (a curly
\* quote), U+1F600 (two UTF-16 units), and the colon of the filter syntax
Cp == [a |-> 97, e |-> 101, acute |-> 769, aAcute |-> 225, eAcute |-> 233,
       ctl |-> 1, curly |-> 8220, astral |-> 128512, colon |-> 58,
       equals |-> 61, lf |-> 10, hash |-> 35, x |-> 120, s |-> 115, d |-> 100,
       T |-> 84]
LatinA == Cp.a
LatinE == Cp.e
Acute == Cp.acute
Ctl == Cp.ctl
CurlyDQ == Cp.curly
Astral == Cp.astral
Colon == Cp.colon

\* the code points input strings are drawn from
Alphabet == {LatinA, LatinE, Acute, Space, Ctl, BOM, Astral, CurlyDQ, NBSP}

Strings(n) == UNION {[1..k -> Alphabet] : k \in 0..n}

Range(f) == {f[i] : i \in DOMAIN f}

\* number of UTF-16 units of one code point, and String.prototype.length
Units(c) == IF c > 65535 THEN 2 ELSE 1

Len16(s) == Len(s) + Len(SelectSeq(s, LAMBDA c : Units(c) = 2))

----------------------------------------------------------------------------
(* Text utils *)

\* the character class of stripControls' regular expression
StripClass(c) ==
    \/ c \in 0..8
    \/ c = 11
    \/ c = 12
    \/ c \in 14..31
    \/ c = 127

\* the class \s of a JavaScript regular expression
IsSpace(c) ==
    \/ c \in 9..13
    \/ c \in {32, 160, 5760, 8232, 8233, 8239, 8287, 12288, 65279}
    \/ c \in 8192..8202

QuoteMap(c) ==
    IF c \in {8220, 8221} THEN DQuote
    ELSE IF c \in {8216, 8217} THEN SQuote
    ELSE IF c = NBSP THEN Space
    ELSE c

toASCIIQuotes(s) == [i \in 1..Len(s) |-> QuoteMap(s[i])]

stripControls(s) == SelectSeq(s, LAMBDA c : ~StripClass(c))

stripBOM(s) == IF s # <<>> /\ Head(s) = BOM THEN Tail(s) ELSE s

\* canonical composition of a starter with a following U+0301
Compose(c) == IF c = LatinA THEN Cp.aAcute ELSE IF c = LatinE THEN Cp.eAcute ELSE c

\* String.prototype.normalize("NFC") on strings over the modelled code
\* points: U+0301 is the only combining mark, so it composes exactly when it
\* directly follows a (LatinA) or e (LatinE); the mark is then dropped and
\* the letter before it replaced by the composed letter.
Composes(s, i) == i > 1 /\ s[i] = Acute /\ s[i - 1] \in {LatinA, LatinE}

NFC(s) ==
    LET marked == [i \in 1..Len(s) |->
                      IF Composes(s, i) THEN -1
                      ELSE IF i < Len(s) /\ Composes(s, i + 1) THEN Compose(s[i])
                      ELSE s[i]]
    IN SelectSeq(marked, LAMBDA c : c # -1)

normalize(s) == NFC(stripControls(toASCIIQuotes(stripBOM(s))))

----------------------------------------------------------------------------
(* Simple wrapping *)

\* t.split(/\s+/).filter(Boolean)
RECURSIVE SplitLoop(_, _, _)
SplitLoop(s, acc, cur) ==
    IF s = <<>> THEN (IF cur # <<>> THEN Append(acc, cur) ELSE acc)
    ELSE IF IsSpace(Head(s))
         THEN SplitLoop(Tail(s), IF cur # <<>> THEN Append(acc, cur) ELSE acc, <<>>)
         ELSE SplitLoop(Tail(s), acc, Append(cur, Head(s)))

Words(t) == SplitLoop(t, <<>>, <<>>)

\* glyph mode: the condition under which the current line is pushed
GlyphFull(cur, lim) == Len16(cur) >= lim

RECURSIVE GlyphLoop(_, _, _, _)
GlyphLoop(t, lim, acc, cur) ==
    IF t = <<>> THEN (IF cur # <<>> THEN Append(acc, cur) ELSE acc)
    ELSE IF GlyphFull(cur, lim)
         THEN GlyphLoop(Tail(t), lim, Append(acc, cur), <<Head(t)>>)
         ELSE GlyphLoop(Tail(t), lim, acc, Append(cur, Head(t)))

\* word mode: next, and the condition under which the current line is pushed
NextLine(cur, w) == (IF cur # <<>> THEN cur \o <<Space>> ELSE <<>>) \o w

WordBreaksOnCur(cur, w, lim) == Len16(cur) >= lim /\ cur # <<>>
WordBreaks(cur, w, lim) == Len16(NextLine(cur, w)) > lim /\ cur # <<>>

RECURSIVE WordLoop(_, _, _, _)
WordLoop(ws, lim, acc, cur) ==
    IF ws = <<>> THEN (IF cur # <<>> THEN Append(acc, cur) ELSE acc)
    ELSE IF WordBreaks(cur, Head(ws), lim)
         THEN WordLoop(Tail(ws), lim, Append(acc, cur), Head(ws))
         ELSE WordLoop(Tail(ws), lim, acc, NextLine(cur, Head(ws)))

wrapByLimit(txt, lim, cjk) ==
    LET t == normalize(txt) IN
    IF t = <<>> THEN << <<>> >>
    ELSE IF cjk THEN GlyphLoop(t, lim, <<>>, <<>>)
    ELSE WordLoop(Words(t), lim, <<>>, <<>>)

----------------------------------------------------------------------------
(* main(): resolved style, positions *)

\* canvas
W == 1080
H == 1920
\* margins / paddings
mX == 0
mY == 64
pX == 64
pY == 120
\* typography
tSize == 88
iSize == 54
cSize == 52
gap == 86
titleGap == 72
titleBottomGap == 64
\* the fixed inset of the cta line and the offset of titleLineSpace
CtaInset == 12
TitleSpaceOffset == 10
\* rawItems' slice(0, 12)
ItemCap == 12

\* (S.bullet ?? "•") + " "
bullet == <<8226, Space>>
\* isCJK ? "　" : "   "
indent(cjk) == IF cjk THEN <<12288>> ELSE <<Space, Space, Space>>
\* e.cta || "Save and try one today"
DefaultCta == <<83, 97, 118, 101, 32, 97, 110, 100, 32, 116, 114, 121, 32,
                111, 110, 101, 32, 116, 111, 100, 97, 121>>

LangIsCJK(l) == l \in {"ja", "zh", "ko"}

\* an absent path: undefined or null
NoPath == ""

\* fontFor's tables
assets ==
    [ja |-> "assets/fonts/NotoSansJP-Regular.ttf",
     en |-> "assets/fonts/NotoSans-Regular.ttf",
     es |-> "assets/fonts/NotoSans-Regular.ttf",
     pt |-> "assets/fonts/NotoSans-Regular.ttf"]
sysNoto ==
    << "/usr/share/fonts/truetype/noto/NotoSans-Regular.ttf",
       "/usr/share/fonts/truetype/noto/NotoSansDisplay-Regular.ttf",
       "/usr/share/fonts/truetype/noto/NotoSansJP-Regular.otf" >>
sysDejavu == << "/usr/share/fonts/truetype/dejavu/DejaVuSans.ttf" >>

\* assets[lang]: undefined for a language the table does not list
AssetOf(l) == IF l \in DOMAIN assets THEN assets[l] ELSE NoPath

\* for (const p of paths) if (p && fs.existsSync(p)) return p; return null
RECURSIVE firstExisting(_, _)
firstExisting(paths, fsys) ==
    IF paths = <<>> THEN NoPath
    ELSE IF Head(paths) # NoPath /\ Head(paths) \in fsys THEN Head(paths)
    ELSE firstExisting(Tail(paths), fsys)

\* the candidate list with the system fonts ahead of the bundled ones
CandidatesSystemFirst(l, sFont) ==
    <<sFont>> \o sysNoto \o sysDejavu \o <<AssetOf(l), assets.en>>
\* [styleFont, assets[lang], assets.en, ...sysNoto, ...sysDejavu]
Candidates(l, sFont) ==
    <<sFont, AssetOf(l), assets.en>> \o sysNoto \o sysDejavu

fontFor(l, sFont, fsys) == firstExisting(Candidates(l, sFont), fsys)

\* the font of a run in a checkout that holds the bundled fonts, under a style
\* that names no font
fontPath == fontFor(lang, NoPath, {assets[l] : l \in DOMAIN assets})

\* positions
px == mX
py == mY
pw == W - mX * 2
ph == H - mY * 2
ix == px + pX
iyTitle == py + pY
iyItemsStart == iyTitle + tSize + titleGap + titleBottomGap
iyCta == py + ph - pY - cSize - CtaInset
Max(a, b) == IF a >= b THEN a ELSE b
titleLineSpace == Max(0, titleGap - tSize + TitleSpaceOffset)

\* ---------------------------------------------------------------------
\* Style resolution. A section of the style document is an object from keys
\* to values; a value is <<n>> for the number n and <<>> for null.
Null == <<>>
EmptyObj == [k \in {} |-> Null]
Num(n) == <<n>>

\* (st.styles && st.styles[name]) || {}
Section(sty, name) ==
    IF name \in DOMAIN sty THEN sty[name] ELSE EmptyObj

\* Object.assign(target, src): the own keys of src are copied over target
ObjectAssign(target, src) ==
    [k \in DOMAIN target \cup DOMAIN src |->
        IF k \in DOMAIN src THEN src[k] ELSE target[k]]

\* S = Object.assign({}, S0, st.styles[LANG] || {})
Merged(sty, l) ==
    ObjectAssign(ObjectAssign(EmptyObj, Section(sty, "default")), Section(sty, l))

\* obj[key] ?? d : d for an absent key and for null
Coalesce(obj, key, d) ==
    IF key \in DOMAIN obj /\ obj[key] # Null THEN obj[key][1] ELSE d

\* the numeric keys main reads and their hard-coded defaults
StyleDefaults ==
    [width |-> W, height |-> H,
     panel_margin_x |-> mX, panel_margin_y |-> mY,
     panel_padding_x |-> pX, panel_padding_y |-> pY,
     title_size |-> tSize, item_size |-> iSize, cta_size |-> cSize,
     line_gap |-> gap, title_line_gap |-> titleGap,
     title_bottom_gap |-> titleBottomGap]

\* const W = S.width ?? 1080; ... const titleBottomGap = S.title_bottom_gap ?? 64
Resolve(obj) ==
    [k \in DOMAIN StyleDefaults |-> Coalesce(obj, k, StyleDefaults[k])]

\* positions of a resolved style
Geometry(c) ==
    LET gx == c.panel_margin_x
        gy == c.panel_margin_y
        gw == c.width - c.panel_margin_x * 2
        gh == c.height - c.panel_margin_y * 2
    IN [px |-> gx, py |-> gy, pw |-> gw, ph |-> gh,
        ix |-> gx + c.panel_padding_x,
        iyTitle |-> gy + c.panel_padding_y,
        iyItemsStart |-> gy + c.panel_padding_y + c.title_size
                            + c.title_line_gap + c.title_bottom_gap,
        iyCta |-> gy + gh - c.panel_padding_y - c.cta_size - CtaInset]

\* y of title line k and of item line k (0-based), as drawtext evaluates it
TitleY(c, k) ==
    Geometry(c).iyTitle
        + k * (c.title_size + Max(0, c.title_line_gap - c.title_size + TitleSpaceOffset))
ItemY(c, k) == Geometry(c).iyItemsStart + k * c.line_gap

----------------------------------------------------------------------------
(* main(): wrap / clean of one entry *)

Take(s, n) == IF Len(s) <= n THEN s ELSE SubSeq(s, 1, n)

\* wrapByLimit(normalize(e.title || ""), tLimit, isCJK)
TitleLinesOf(e, lim, cjk) == wrapByLimit(normalize(e.title), lim, cjk)

\* the items without the cut to the first ItemCap
RawItemsAll(e) ==
    SelectSeq([k \in 1..Len(e.items) |-> normalize(e.items[k])], LAMBDA it : it # <<>>)
\* e.items.map(s => normalize(s)).filter(Boolean).slice(0, 12)
RawItems(e) ==
    Take(SelectSeq([k \in 1..Len(e.items) |-> normalize(e.items[k])],
                   LAMBDA it : it # <<>>),
         ItemCap)

\* arr.forEach((line, li) => itemLines.push(li === 0 ? bullet+line : indent+line))
Prefixed(arr, cjk) ==
    [li \in 1..Len(arr) |-> (IF li = 1 THEN bullet ELSE indent(cjk)) \o arr[li]]

RECURSIVE ItemLinesLoop(_, _, _, _)
ItemLinesLoop(items, lim, cjk, acc) ==
    IF items = <<>> THEN acc
    ELSE ItemLinesLoop(Tail(items), lim, cjk,
                       acc \o Prefixed(wrapByLimit(Head(items), lim, cjk), cjk))

ItemLinesOf(e, lim, cjk) == ItemLinesLoop(RawItems(e), lim, cjk, <<>>)

\* normalize(e.cta || "Save and try one today")
CtaLineOf(e) == normalize(IF e.cta = <<>> THEN DefaultCta ELSE e.cta)

----------------------------------------------------------------------------
(* main(): text files and filter graph of one entry *)

\* the directory made by mkdtemp
TmpDir == "/tmp/srshort-XXXXXX"

\* makeTxt's path.join(tmpRoot, `${base}.txt`)
TxtPath(base) == TmpDir \o "/" \o base \o ".txt"
TitleBase(i, k) == "title_" \o ToString(i) \o "_" \o ToString(k)
ItemBase(i, k) == "item_" \o ToString(i) \o "_" \o ToString(k)
CtaBase(i) == "cta_" \o ToString(i)

\* txt.replace(/\r\n/g, "\n")
RECURSIVE CrLfToLf(_)
CrLfToLf(s) ==
    IF s = <<>> THEN <<>>
    ELSE IF Len(s) >= 2 /\ s[1] = 13 /\ s[2] = 10 THEN <<10>> \o CrLfToLf(Tail(Tail(s)))
    ELSE <<Head(s)>> \o CrLfToLf(Tail(s))

\* slot labels: `v${vi}`, the label of the cta node and the one given to -map
VLabel(vi) == "v" \o ToString(vi)
CtaOutOld == "vout"
CtaOut == "v"
MapLabel == "v"

\* how a drawtext node gets its text: textfile=${tf}
TextSourceInline(tf, line) == [text |-> line]
TextSource(tf, line) == [textfile |-> tf]

DrawText(src, tf, line, x, y, size, dst) ==
    [in |-> src,
     filter |-> "drawtext",
     opts |-> TextSource(tf, line),
     fontfile |-> fontPath,
     x |-> x, y |-> y, fontsize |-> size,
     out |-> dst]

\* [0:v]scale=W:H,format=rgba,drawbox=...[v0]
PanelNode ==
    [in |-> "0:v",
     filter |-> "scale,format,drawbox",
     opts |-> [w |-> W, h |-> H],
     fontfile |-> "",
     x |-> ToString(px), y |-> py, fontsize |-> 0,
     out |-> VLabel(0)]

\* one node for the whole title, as the renderer without per-line nodes did
TitleNodesSingle(i, tl) ==
    IF tl = <<>> THEN <<>>
    ELSE << DrawText(VLabel(0), TxtPath(TitleBase(i, 0)), tl[1], ToString(ix),
                     iyTitle, tSize, VLabel(1)) >>

\* the title loop: node k (0-based) reads v{k} and writes v{k+1}
TitleNodes(i, tl) ==
    [n \in 1..Len(tl) |->
        DrawText(VLabel(n - 1), TxtPath(TitleBase(i, n - 1)), tl[n], ToString(ix),
                 iyTitle + (n - 1) * (tSize + titleLineSpace), tSize, VLabel(n))]

\* the item loop, entered with vi = vi0
ItemNodes(i, il, vi0) ==
    [n \in 1..Len(il) |->
        DrawText(VLabel(vi0 + n - 1), TxtPath(ItemBase(i, n - 1)), il[n], ToString(ix),
                 iyItemsStart + (n - 1) * gap, iSize, VLabel(vi0 + n))]

CtaNode(i, cta, vi) ==
    DrawText(VLabel(vi), TxtPath(CtaBase(i)), cta, "(w-text_w)/2", iyCta, cSize, CtaOut)

\* parts, in the order the code pushes them
FilterGraph(i, tl, il, cta) ==
    LET tn == TitleNodes(i, tl) IN
    <<PanelNode>> \o tn \o ItemNodes(i, il, Len(tn)) \o <<CtaNode(i, cta, Len(tn) + Len(il))>>

\* the paths pushed to textFiles and the text written to each, in order
TextFilesOf(i, tl, il) ==
    [n \in 1..Len(tl) |-> TxtPath(TitleBase(i, n - 1))]
    \o [n \in 1..Len(il) |-> TxtPath(ItemBase(i, n - 1))]
    \o <<TxtPath(CtaBase(i))>>

WrittenOf(tl, il, cta) ==
    LET all == tl \o il \o <<cta>> IN [n \in 1..Len(all) |-> CrLfToLf(all[n])]

\* the name of the first unit, whatever the counter
Pad4First(i) == "0001"
\* `${String(idx).padStart(4, "0")}`
Pad4(i) ==
    IF i < 10 THEN "000" \o ToString(i)
    ELSE IF i < 100 THEN "00" \o ToString(i)
    ELSE IF i < 1000 THEN "0" \o ToString(i)
    ELSE ToString(i)

----------------------------------------------------------------------------
(* main(): one run over the entries of a content document *)

\* most entries in a document, most items in an entry
MaxEntries == 2
MaxItems == 3
\* most files in a batch of the uploader
MaxBatch == 2
\* largest --count of a run of the seed picker
MaxCount == 2
\* a maximum node count for a compiled graph; the renderer configures none,
\* and the value is one the entries of the model exceed
GraphMax == 4

TitleSet == {<<>>, <<Space>>, <<LatinA>>, <<LatinE, Space, LatinA>>, <<Colon, SQuote>>}
ItemSet == {<<LatinA>>, <<LatinE, Space, LatinA>>, <<Ctl>>}
CtaSet == {<<>>, <<LatinE>>}
ItemLists == UNION {[1..k -> ItemSet] : k \in 0..MaxItems}
EntrySet == [title : TitleSet, items : ItemLists, cta : CtaSet]
LimitSet == {1, MaxLimit}

\* no entry in scope
NoEntry == [title |-> <<>>, items |-> <<>>, cta |-> <<>>]

TextIdle ==
    /\ text = <<>>
    /\ str = <<>>
    /\ prev = <<>>
    /\ limit = 1
    /\ isCJK = FALSE
    /\ lines = <<>>
    /\ tpc = "idle"

FontIdle ==
    /\ disk = {}
    /\ fLang = "en"
    /\ styleFont = NoPath
    /\ font = NoPath
    /\ fontPrev = NoPath
    /\ fpc = "idle"

StyleIdle ==
    /\ styles = EmptyObj
    /\ stLoaded = EmptyObj
    /\ sLang = "en"
    /\ merged = EmptyObj
    /\ cfg = EmptyObj
    /\ geo = EmptyObj
    /\ spc = "idle"

MetaIdle ==
    /\ cm = EmptyObj
    /\ mEntry = EmptyObj
    /\ sidecar = EmptyObj
    /\ hasSidecar = FALSE
    /\ snippet = EmptyObj
    /\ mpc = "idle"

LayIdle ==
    /\ layEntry = EmptyObj
    /\ layLimT = 1
    /\ layLimI = 1
    /\ layCjk = FALSE
    /\ layTitle = <<>>
    /\ layItems = <<>>
    /\ layY = EmptyObj
    /\ lpc = "idle"

\* no error
NoErr == [code |-> 0, status |-> 0, message |-> ""]

UpIdle ==
    /\ uMode = "batch"
    /\ uLangOk = TRUE
    /\ uBatch = <<>>
    /\ ui = 0
    /\ uTries = <<>>
    /\ uVid = ""
    /\ uErr = NoErr
    /\ uOk = {}
    /\ uLoc = EmptyObj
    /\ uDone = 0
    /\ uReported = -1
    /\ upc = "idle"

SeedIdle ==
    /\ poolAll = <<>>
    /\ usedFile = <<>>
    /\ COUNT = 0
    /\ loaded = <<>>
    /\ wasReset = FALSE
    /\ sRemaining = <<>>
    /\ sPicks = <<>>
    /\ sdpc = "idle"

GenIdle ==
    /\ PROFILE = "solo"
    /\ gSeed = <<>>
    /\ gCalls = <<>>
    /\ gOut = EmptyObj
    /\ gFrom = ""
    /\ gEntries = <<>>
    /\ gpc = "idle"

MoreIdle == LayIdle /\ UpIdle /\ SeedIdle /\ GenIdle

AuxIdle == FontIdle /\ StyleIdle /\ MetaIdle /\ MoreIdle

Init ==
    /\ TextIdle
    /\ AuxIdle
    /\ nEntries \in 0..MaxEntries
    /\ entry = NoEntry
    /\ lang \in {"en", "ja"}
    /\ tLimit \in LimitSet
    /\ iLimit \in LimitSet
    /\ idx = 0
    /\ pc = "start"
    /\ tmpRoot = FALSE
    /\ files = {}
    /\ textFiles = <<>>
    /\ written = <<>>
    /\ titleLines = <<>>
    /\ itemLines = <<>>
    /\ parts = <<>>
    /\ mapArg = ""
    /\ status = -1
    /\ outputs = {}
    /\ spawns = 0
    /\ rendered = <<>>
    /\ log = <<>>

\* mkdir(odir), mkdtemp, readChannelMetaKV
Start ==
    /\ pc = "start"
    /\ tmpRoot' = TRUE
    /\ pc' = "loop"
    /\ UNCHANGED <<textVars, auxVars, nEntries, entry, lang, tLimit, iLimit, idx, files,
                   textFiles, written, titleLines, itemLines, parts, mapArg,
                   status, outputs, spawns, rendered, log>>

\* one turn of the loop up to the ffmpeg call: idx++, wrap/clean, the text
\* files, the filter graph and the argument list; e is the idx-th entry of
\* the document
Compile(e) ==
    /\ pc = "loop"
    /\ idx < nEntries
    /\ LET i == idx + 1
           cjk == LangIsCJK(lang)
           tl == TitleLinesOf(e, tLimit, cjk)
           il == ItemLinesOf(e, iLimit, cjk)
           cta == CtaLineOf(e)
       IN /\ idx' = i
          /\ entry' = e
          /\ titleLines' = tl
          /\ itemLines' = il
          /\ textFiles' = TextFilesOf(i, tl, il)
          /\ written' = WrittenOf(tl, il, cta)
          /\ files' = files \cup Range(TextFilesOf(i, tl, il))
          /\ parts' = FilterGraph(i, tl, il, cta)
          /\ mapArg' = MapLabel
    /\ pc' = "ffmpeg"
    /\ UNCHANGED <<textVars, auxVars, nEntries, lang, tLimit, iLimit, tmpRoot, status, outputs,
                   spawns, rendered, log>>

\* the exit statuses of a child process: 0, non-zero, and -1 for the null
\* status of a child that was not started or was ended by a signal
ExitStatuses == {0, 1, -1}

\* r.status !== 0
FfmpegFailedPositive(st) == st > 0
FfmpegFailed(st) == st # 0

\* console.error("[font]", fontPath); console.error("[texts]", textFiles);
\* then the rejection handler's console.error(e)
FailureLog(fnt, texts) ==
    << [tag |-> "[font]", val |-> <<fnt>>],
       [tag |-> "[texts]", val |-> texts],
       [tag |-> "error", val |-> <<"ffmpeg failed">>] >>

\* console.log("[mp4]", outMp4); console.log("[meta]", outJson)
SuccessLog(i) ==
    << [tag |-> "[mp4]", val |-> <<Pad4(i) \o ".mp4">>],
       [tag |-> "[meta]", val |-> <<Pad4(i) \o ".json">>] >>

\* spawnSync("ffmpeg", args) and the check of r.status: a non-zero status
\* throws, and the rejection handler exits the process
Ffmpeg(st) ==
    /\ pc = "ffmpeg"
    /\ status' = st
    /\ spawns' = spawns + 1
    /\ IF FfmpegFailed(st)
       THEN /\ outputs' = outputs
            /\ rendered' = rendered
            /\ log' = log \o FailureLog(fontPath, textFiles)
            /\ pc' = "failed"
       ELSE /\ outputs' = outputs \cup {Pad4(idx) \o ".mp4"}
            /\ rendered' = Append(rendered, idx)
            /\ log' = log
            /\ pc' = "sidecar"
    /\ UNCHANGED <<textVars, auxVars, nEntries, entry, lang, tLimit, iLimit, idx, tmpRoot,
                   files, textFiles, written, titleLines, itemLines, parts, mapArg>>

\* the sidecar write, then the cleanup of the entry's text files, which ends
\* the turn of the loop and with it the scope of the entry's locals; a write
\* that throws ends main() before the cleanup
Sidecar(ok) ==
    /\ pc = "sidecar"
    /\ IF ok
       THEN /\ outputs' = outputs \cup {Pad4(idx) \o ".json"}
            /\ files' = files \ Range(textFiles)
            /\ log' = log \o SuccessLog(idx)
            /\ pc' = "loop"
            /\ entry' = NoEntry
            /\ textFiles' = <<>>
            /\ written' = <<>>
            /\ titleLines' = <<>>
            /\ itemLines' = <<>>
            /\ parts' = <<>>
            /\ mapArg' = ""
       ELSE /\ outputs' = outputs
            /\ files' = files
            /\ log' = Append(log, [tag |-> "error", val |-> <<"writeFile failed">>])
            /\ pc' = "failed"
            /\ UNCHANGED <<entry, textFiles, written, titleLines, itemLines,
                           parts, mapArg>>
    /\ UNCHANGED <<textVars, auxVars, nEntries, lang, tLimit, iLimit, idx, tmpRoot, status,
                   spawns, rendered>>

\* after the loop: rmdir(tmpRoot), which removes an empty directory only
Finish ==
    /\ pc = "loop"
    /\ idx = nEntries
    /\ tmpRoot' = (files # {})
    /\ pc' = "done"
    /\ UNCHANGED <<textVars, auxVars, nEntries, entry, lang, tLimit, iLimit, idx, files,
                   textFiles, written, titleLines, itemLines, parts, mapArg,
                   status, outputs, spawns, rendered, log>>

Next ==
    \/ Start
    \/ \E e \in EntrySet : Compile(e)
    \/ \E st \in ExitStatuses : Ffmpeg(st)
    \/ \E ok \in BOOLEAN : Sidecar(ok)
    \/ Finish

Spec == Init /\ [][Next]_vars

----------------------------------------------------------------------------
(* The text functions applied to one bounded input *)

MainIdle ==
    /\ nEntries = 0
    /\ entry = [title |-> <<>>, items |-> <<>>, cta |-> <<>>]
    /\ lang = "en"
    /\ tLimit = 1
    /\ iLimit = 1
    /\ idx = 0
    /\ pc = "idle"
    /\ tmpRoot = FALSE
    /\ files = {}
    /\ textFiles = <<>>
    /\ written = <<>>
    /\ titleLines = <<>>
    /\ itemLines = <<>>
    /\ parts = <<>>
    /\ mapArg = ""
    /\ status = -1
    /\ outputs = {}
    /\ spawns = 0
    /\ rendered = <<>>
    /\ log = <<>>

InitText ==
    /\ text \in Strings(MaxLen)
    /\ str = text
    /\ prev = text
    /\ limit = 1
    /\ isCJK = FALSE
    /\ lines = <<>>
    /\ tpc = "input"
    /\ MainIdle
    /\ AuxIdle

\* s -> normalize(s); applied to the raw input and once more to its result
Normalize ==
    /\ tpc \in {"input", "normalized"}
    /\ prev' = str
    /\ str' = normalize(str)
    /\ tpc' = IF tpc = "input" THEN "normalized" ELSE "renormalized"
    /\ UNCHANGED <<text, limit, isCJK, lines, mainVars, auxVars>>

\* wrapByLimit(str, lim, cjk), on the raw input or on a normalized string
Wrap(lim, cjk) ==
    /\ tpc \in {"input", "normalized"}
    /\ limit' = lim
    /\ isCJK' = cjk
    /\ lines' = wrapByLimit(str, lim, cjk)
    /\ tpc' = IF tpc = "input" THEN "wrapped" ELSE "wrappedNormalized"
    /\ UNCHANGED <<text, str, prev, mainVars, auxVars>>

NextText ==
    \/ Normalize
    \/ \E lim \in 1..MaxLimit, cjk \in BOOLEAN : Wrap(lim, cjk)

SpecText == InitText /\ [][NextText]_vars

----------------------------------------------------------------------------
(* Helpers of the claims about the text functions *)

Wrapped == tpc \in {"wrapped", "wrappedNormalized"}

RECURSIVE Concat(_)
Concat(ls) == IF ls = <<>> THEN <<>> ELSE Head(ls) \o Concat(Tail(ls))

\* the lines joined by single spaces
RECURSIVE JoinSpace(_)
JoinSpace(ls) ==
    IF ls = <<>> THEN <<>>
    ELSE IF Len(ls) = 1 THEN Head(ls)
    ELSE Head(ls) \o <<Space>> \o JoinSpace(Tail(ls))

IsC0C1(c) == c \in 0..31 \/ c = 127 \/ c \in 128..159

----------------------------------------------------------------------------
(* Claims about normalize and wrapByLimit, checked under SpecText *)

\* C1: wrapByLimit returns at least one line for every input string and
\* every positive limit in both modes, and exactly one empty line for the
\* empty string.
C1_AtLeastOneLine ==
    Wrapped => /\ Len(lines) >= 1
               /\ (str = <<>> => lines = << <<>> >>)

\* C2: for a normalized string s, the lines returned by wrapByLimit recover
\* the whitespace-delimited tokens of s in order (word mode, lines joined by
\* single spaces) or the code points of s in order (glyph mode, lines
\* concatenated).
C2_WrapCompleteness ==
    tpc = "wrappedNormalized" =>
        IF isCJK THEN Concat(lines) = str
        ELSE Words(JoinSpace(lines)) = Words(str)

\* C3: in word mode every returned line has at most limit characters unless
\* the line is exactly one whitespace-delimited token of the input that is
\* itself longer than limit.
C3_WrapBoundary ==
    (Wrapped /\ ~isCJK) =>
        \A i \in 1..Len(lines) :
            \/ Len16(lines[i]) <= limit
            \/ /\ lines[i] \in Range(Words(normalize(str)))
               /\ Words(lines[i]) = <<lines[i]>>

\* a word-mode result of several lines in which an over-long token stands on
\* a line of its own next to a line within the limit
C3_Witness ==
    /\ Wrapped /\ ~isCJK
    /\ Len(lines) >= 2
    /\ \E i \in 1..Len(lines) : Len16(lines[i]) > limit
    /\ \E i \in 1..Len(lines) : Len16(lines[i]) <= limit

\* C4: in glyph mode every returned line except possibly the last holds
\* exactly limit code points.
C4_GlyphExact ==
    (Wrapped /\ isCJK) =>
        \A i \in 1..(Len(lines) - 1) : Len(lines[i]) = limit

\* C5: normalize(normalize(s)) = normalize(s) for every string s.
C5_NormalizeIdempotent ==
    tpc = "renormalized" => str = prev

\* C6: the output of normalize holds no C0 or C1 control character other
\* than newline, no curly quote and no non-breaking space, and does not
\* start with a byte-order mark.
C6_NormalizeClean ==
    tpc \in {"normalized", "renormalized"} =>
        /\ \A i \in 1..Len(str) :
              /\ IsC0C1(str[i]) => str[i] = 10
              /\ str[i] \notin {8216, 8217, 8220, 8221}
              /\ str[i] # NBSP
        /\ (str # <<>> => Head(str) # BOM)

----------------------------------------------------------------------------
(* Claims about the filter graph and the text files, checked under Spec *)

\* the entry's graph has been compiled (and not yet gone out of scope)
Compiled == pc \in {"ffmpeg", "sidecar", "failed"}

\* the nodes that read slot label l, counting the -map argument as a reader
Readers(l) ==
    Cardinality({n \in 1..Len(parts) : parts[n].in = l})
    + (IF mapArg = l THEN 1 ELSE 0)

\* C7: the compiled filter graph is one unbroken chain: the first node reads
\* the background input and writes v0, the n-th drawtext node reads v(n-1)
\* and writes vn, the last node writes the slot passed to -map, every slot
\* label is written exactly once and read exactly once, and no label is read
\* before it is written.
C7_GraphChain ==
    Compiled =>
        /\ Len(parts) >= 2
        /\ parts[1].in = "0:v"
        /\ parts[1].out = "v0"
        /\ \A n \in 2..Len(parts) :
              /\ parts[n].in = "v" \o ToString(n - 2)
              /\ parts[n].in = parts[n - 1].out
              /\ n < Len(parts) => parts[n].out = "v" \o ToString(n - 1)
        /\ parts[Len(parts)].out = mapArg
        /\ \A m, n \in 1..Len(parts) :
              /\ (m # n => parts[m].out # parts[n].out)
              /\ (parts[n].in = parts[m].out => m < n)
        /\ \A n \in 1..Len(parts) : Readers(parts[n].out) = 1

\* a compiled graph with several title nodes and several item nodes
C7_Witness ==
    /\ Compiled
    /\ Len(titleLines) >= 2
    /\ Len(itemLines) >= 2
    /\ Len(parts) >= 6

\* C8: the graph has exactly 1 + T + I + 1 nodes, in the order background
\* node, the T title lines, the I item lines, the cta line; an entry without
\* items yields no item node.
C8_NodeCount ==
    Compiled =>
        LET T == Len(titleLines)
            I == Len(itemLines)
        IN /\ Len(parts) = 1 + T + I + 1
           /\ Len(textFiles) = T + I + 1
           /\ parts[1].filter = "scale,format,drawbox"
           /\ \A n \in 2..Len(parts) :
                 /\ parts[n].filter = "drawtext"
                 /\ parts[n].opts.textfile = textFiles[n - 1]
           /\ \A k \in 1..T :
                 /\ parts[1 + k].fontsize = tSize
                 /\ written[k] = titleLines[k]
                 /\ textFiles[k] = TxtPath(TitleBase(idx, k - 1))
           /\ \A k \in 1..I :
                 /\ parts[1 + T + k].fontsize = iSize
                 /\ written[T + k] = itemLines[k]
                 /\ textFiles[T + k] = TxtPath(ItemBase(idx, k - 1))
           /\ parts[2 + T + I].fontsize = cSize
           /\ written[T + I + 1] = CtaLineOf(entry)
           /\ textFiles[T + I + 1] = TxtPath(CtaBase(idx))
           /\ (entry.items = <<>> => I = 0)

\* one title line and three one-line items: six nodes
C8_Witness ==
    /\ Compiled
    /\ Len(titleLines) = 1
    /\ Len(entry.items) = 3
    /\ Len(itemLines) = 3
    /\ Len(parts) = 6

\* the lines ls with their texts erased
Erased(ls) == [n \in 1..Len(ls) |-> <<>>]

\* a text of the same shape as s spelled with characters of the filter syntax
Respell(s) ==
    [n \in 1..Len(s) |->
        IF s[n] = LatinA THEN Colon ELSE IF s[n] = LatinE THEN SQuote ELSE s[n]]

\* entries that differ from the current one in the title, the items and the cta
Variants ==
    [title : TitleSet,
     items : {[k \in 1..Len(entry.items) |-> Respell(entry.items[k])]},
     cta : CtaSet \ {entry.cta}]

\* C9: the filter graph holds no text of the entry: no node carries an
\* inline text, the graph is the one compiled from the same numbers of
\* lines with every text erased, and an entry at the same batch position
\* whose title and items wrap into the same numbers of lines compiles to the
\* same graph.
C9_TextIndirection ==
    pc = "ffmpeg" =>
        /\ \A n \in 1..Len(parts) : "text" \notin DOMAIN parts[n].opts
        /\ parts = FilterGraph(idx, Erased(titleLines), Erased(itemLines), <<>>)
        /\ \A e \in Variants :
              LET cjk == LangIsCJK(lang)
                  tl == TitleLinesOf(e, tLimit, cjk)
                  il == ItemLinesOf(e, iLimit, cjk)
              IN (Len(tl) = Len(titleLines) /\ Len(il) = Len(itemLines))
                 => FilterGraph(idx, tl, il, CtaLineOf(e)) = parts

\* a compiled entry with title and item lines, and an entry of the same
\* numbers of lines whose title, items and cta are all different texts
C9_Witness ==
    /\ pc = "ffmpeg"
    /\ Len(titleLines) >= 1
    /\ Len(itemLines) >= 2
    /\ \E e \in Variants :
          /\ e.title # entry.title
          /\ e.items # entry.items
          /\ TitleLinesOf(e, tLimit, LangIsCJK(lang)) # titleLines
          /\ Len(TitleLinesOf(e, tLimit, LangIsCJK(lang))) = Len(titleLines)
          /\ ItemLinesOf(e, iLimit, LangIsCJK(lang)) # itemLines
          /\ Len(ItemLinesOf(e, iLimit, LangIsCJK(lang))) = Len(itemLines)

\* C10: once the render attempt has ended, on success and on failure, no
\* text file made for a unit and no temporary directory of the run exists.
C10_TempFilesReleased ==
    pc \in {"done", "failed"} => (files = {} /\ ~tmpRoot)

\* ---------------------------------------------------------------------
\* Font resolution: fontFor(LANG, S.font) over the font files of a machine

\* a font path a style document names
CustomFont == "assets/fonts/Custom.ttf"

FontFiles ==
    {CustomFont} \cup {assets[l] : l \in DOMAIN assets}
        \cup Range(sysNoto) \cup Range(sysDejavu)

\* "de" stands for a language the assets table does not list
FontLangs == {"en", "ja", "de"}

InitFont ==
    /\ TextIdle
    /\ MainIdle
    /\ disk \in SUBSET FontFiles
    /\ fLang \in FontLangs
    /\ styleFont \in {NoPath, CustomFont}
    /\ font = NoPath
    /\ fontPrev = NoPath
    /\ fpc = "input"
    /\ StyleIdle
    /\ MetaIdle
    /\ MoreIdle

\* const fontPath = fontFor(LANG, S.font); if (!fontPath) throw ...;
\* taken a second time on the same machine to compare the two results
ResolveFont ==
    /\ fpc \in {"input", "once"}
    /\ font' = fontFor(fLang, styleFont, disk)
    /\ fontPrev' = font
    /\ fpc' = IF font' = NoPath THEN "nofont"
              ELSE IF fpc = "input" THEN "once" ELSE "twice"
    /\ UNCHANGED <<disk, fLang, styleFont, textVars, mainVars, styleVars, metaVars,
                   moreVars>>

NextFont == ResolveFont

SpecFont == InitFont /\ [][NextFont]_vars

\* ---------------------------------------------------------------------
\* Style resolution and layout: the head of main over small style documents

\* the values a key of a style document takes
ValueSet == {Null, Num(0), Num(100), Num(600)}

\* the sections of at most one key
Sections ==
    {EmptyObj} \cup {[k \in {key} |-> v] : key \in DOMAIN StyleDefaults, v \in ValueSet}

InitStyle ==
    /\ TextIdle
    /\ MainIdle
    /\ FontIdle
    /\ \E d \in Sections, l \in Sections : styles = [default |-> d, ja |-> l]
    /\ stLoaded = styles
    /\ sLang \in {"ja", "en"}
    /\ merged = EmptyObj
    /\ cfg = EmptyObj
    /\ geo = EmptyObj
    /\ spc = "loaded"
    /\ MetaIdle
    /\ MoreIdle

\* S0, S and the fields read from S with ??
ResolveStyle ==
    /\ spc = "loaded"
    /\ merged' = Merged(styles, sLang)
    /\ cfg' = Resolve(merged')
    /\ spc' = "resolved"
    /\ UNCHANGED <<styles, stLoaded, sLang, geo, textVars, mainVars, fontVars, metaVars,
                   moreVars>>

\* const px = mX, py = mY, pw = W - mX*2, ...
Layout ==
    /\ spc = "resolved"
    /\ geo' = Geometry(cfg)
    /\ spc' = "laid"
    /\ UNCHANGED <<styles, stLoaded, sLang, merged, cfg, textVars, mainVars, fontVars,
                   metaVars, moreVars>>

NextStyle == ResolveStyle \/ Layout

SpecStyle == InitStyle /\ [][NextStyle]_vars

\* ---------------------------------------------------------------------
\* Sidecar (render_video.js) and upload snippet (youtube_upload.js)

\* the caps of a title, a description and a tag list
TitleCap == 100
DescCap == 4900
TagCap == 10

Min(a, b) == IF a <= b THEN a ELSE b
Drop(s, n) == SubSeq(s, n + 1, Len(s))

\* the number of white-space characters at the head and at the tail of s
LeadWs(s) ==
    CHOOSE k \in 0..Len(s) :
        /\ \A i \in 1..k : IsSpace(s[i])
        /\ k = Len(s) \/ ~IsSpace(s[k + 1])
TrailWs(s) ==
    CHOOSE k \in 0..Len(s) :
        /\ \A i \in 1..k : IsSpace(s[Len(s) + 1 - i])
        /\ k = Len(s) \/ ~IsSpace(s[Len(s) - k])

\* String.prototype.trim
trim(s) ==
    IF LeadWs(s) = Len(s) THEN <<>>
    ELSE SubSeq(s, LeadWs(s) + 1, Len(s) - TrailWs(s))

\* the keys of the channel meta file that the clean-up expressions name
KeyTitleSuffix == <<116, 105, 116, 108, 101, 95, 115, 117, 102, 102, 105, 120>>
KeyDescription == <<100, 101, 115, 99, 114, 105, 112, 116, 105, 111, 110>>
EqualsSign == Cp.equals
LineFeed == Cp.lf

\* the lower-case form of an ASCII letter, for the flag i
Lower(c) == IF c \in 65..90 THEN c + 32 ELSE c
StartsWithCI(s, w) == Len(s) >= Len(w) /\ \A i \in 1..Len(w) : Lower(s[i]) = w[i]

\* s.replace(/^\s*(key1|key2)\s*=\s*/i, "")
StripKeys(s, keys) ==
    LET r1 == Drop(s, LeadWs(s))
        hit == {n \in 1..Len(keys) : StartsWithCI(r1, keys[n])}
    IN IF hit = {} THEN s
       ELSE LET key == keys[CHOOSE n \in hit : \A m \in hit : n <= m]
                r2 == Drop(r1, Len(key))
                r3 == Drop(r2, LeadWs(r2))
            IN IF r3 = <<>> \/ Head(r3) # EqualsSign THEN s
               ELSE Drop(Tail(r3), LeadWs(Tail(r3)))

\* the first unit of the surrogate pair of an astral code point
HighSurrogate(c) == 55296 + ((c - 65536) \div 1024)

\* s.slice(0, n): the first n UTF-16 units of s; a cut inside a surrogate
\* pair leaves the pair's first unit
Slice16(s, n) ==
    IF Len16(s) = Len(s) THEN SubSeq(s, 1, Min(n, Len(s)))
    ELSE LET k == CHOOSE j \in 0..Len(s) :
                      /\ Len16(SubSeq(s, 1, j)) <= n
                      /\ j = Len(s) \/ Len16(SubSeq(s, 1, j + 1)) > n
             head == SubSeq(s, 1, k)
         IN IF k < Len(s) /\ Len16(head) < n
            THEN Append(head, HighSurrogate(s[k + 1]))
            ELSE head

\* clamp = (s, n) => (s && s.length > n ? s.slice(0, n) : s || "")
clamp(s, n) == IF s # <<>> /\ Len16(s) > n THEN Slice16(s, n) ELSE s

endsWith(s, suf) ==
    Len(suf) <= Len(s) /\ SubSeq(s, Len(s) - Len(suf) + 1, Len(s)) = suf
includes(s, suf) ==
    \E i \in 0..(Len(s) - Len(suf)) : SubSeq(s, i + 1, i + Len(suf)) = suf

\* Array.from(new Set(arr)): the first occurrences, in order
uniq(arr) ==
    LET keep == {i \in 1..Len(arr) : \A j \in 1..(i - 1) : arr[j] # arr[i]}
    IN [n \in 1..Cardinality(keep) |->
           arr[CHOOSE i \in keep : Cardinality({j \in keep : j <= i}) = n]]

\* readChannelMetaKV of render_video.js, from the values of the file's keys
readChannelMetaKV(m) ==
    [title_suffix |-> trim(StripKeys(m.title_suffix, <<KeyTitleSuffix>>)),
     description |-> trim(StripKeys(m.description, <<KeyTitleSuffix, KeyDescription>>)),
     tags |-> Take(m.tags, TagCap),
     tags_extra |-> m.tags_extra]

\* readChannelMeta of youtube_upload.js, from the values of the file's keys
readChannelMeta(m) ==
    [title_suffix |-> m.title_suffix,
     description |-> clamp(m.description, DescCap),
     tags |-> Take(m.tags, TagCap),
     tags_extra |-> m.tags_extra]

\* e.title || "Small Wins"
DefaultTitle == <<83, 109, 97, 108, 108, 32, 87, 105, 110, 115>>

\* the sidecar record of an entry
RenderSidecar(e, CH) ==
    LET desc == IF CH.tags_extra # <<>>
                THEN CH.description \o <<LineFeed>> \o CH.tags_extra
                ELSE CH.description
    IN [title |-> normalize(IF e.title # <<>> THEN e.title ELSE DefaultTitle)
                     \o CH.title_suffix,
        description |-> trim(StripKeys(normalize(desc),
                                       <<KeyTitleSuffix, KeyDescription>>)),
        tags |-> IF e.tags # <<>> THEN Take(e.tags, TagCap) ELSE CH.tags]

\* readSidecar when the .json file is missing or unreadable: {}
NoSidecar == [title |-> <<>>, description |-> <<>>, tags |-> <<>>]

\* path.basename(file, ".mp4") of the first video of a batch
BaseName == <<48, 48, 48, 49>>

\* buildSnippet(baseTitle, ch, sidecar)
buildSnippet(baseTitle, ch, sc) ==
    LET suffix == ch.title_suffix
        hasSuffix == /\ suffix # <<>>
                     /\ (endsWith(baseTitle, suffix) \/ includes(baseTitle, suffix))
        d0 == IF sc.description # <<>> THEN sc.description ELSE ch.description
        sideTags == SelectSeq([i \in 1..Len(sc.tags) |-> trim(sc.tags[i])],
                              LAMBDA t : t # <<>>)
    IN [title |-> clamp(IF hasSuffix THEN baseTitle ELSE baseTitle \o suffix, TitleCap),
        description |-> IF ch.tags_extra # <<>>
                        THEN clamp(d0 \o <<LineFeed>> \o ch.tags_extra, DescCap)
                        ELSE d0,
        tags |-> Take(uniq(IF sideTags # <<>> THEN sideTags ELSE ch.tags), TagCap)]

\* uploadOne up to the request body
SnippetOf(m, sc) ==
    buildSnippet(clamp(IF sc.title # <<>> THEN sc.title ELSE BaseName, TitleCap),
                 readChannelMeta(m), sc)

\* a string of n letters x
Filler(n) == [i \in 1..n |-> Cp.x]

Hash == Cp.hash
SuffixSet == {<<>>, <<Hash, Cp.s>>}
MetaTitleSet ==
    {<<>>, <<Cp.T>>, <<Cp.T, Hash, Cp.s>>, <<Hash, Cp.s, Space, Cp.T>>,
     Filler(TitleCap - 1), Filler(TitleCap + 1)}
DescSet == {<<>>, <<Cp.d>>, Filler(DescCap), Filler(DescCap + 1)}
ExtraSet == {<<>>, <<Hash, Cp.x>>}
Tag(n) == <<Cp.a + n>>
ManyTags == [i \in 1..(TagCap + 1) |-> Tag(i)]
ChannelTagSet == {<<>>, <<Tag(1), Tag(2)>>, <<Tag(2), Tag(2)>>}
EntryTagSet ==
    {<<>>, <<Tag(1)>>, <<Tag(1), Tag(3), Tag(1)>>, ManyTags, <<Tag(1)>> \o ManyTags}

InitMeta ==
    /\ TextIdle
    /\ MainIdle
    /\ FontIdle
    /\ StyleIdle
    /\ \E sf \in SuffixSet, d \in DescSet, t \in ChannelTagSet, x \in ExtraSet :
          cm = [title_suffix |-> sf, description |-> d, tags |-> t, tags_extra |-> x]
    /\ \E ti \in MetaTitleSet, tg \in EntryTagSet : mEntry = [title |-> ti, tags |-> tg]
    /\ sidecar = EmptyObj
    /\ hasSidecar = FALSE
    /\ snippet = EmptyObj
    /\ mpc = "entry"
    /\ MoreIdle

\* render_video.js: the sidecar of the entry
EmitSidecar ==
    /\ mpc = "entry"
    /\ sidecar' = RenderSidecar(mEntry, readChannelMetaKV(cm))
    /\ mpc' = "sidecar"
    /\ UNCHANGED <<cm, mEntry, hasSidecar, snippet, textVars, mainVars, fontVars, styleVars,
                   moreVars>>

\* youtube_upload.js: readSidecar, then uploadOne up to the request body
UploadSnippet(found) ==
    /\ mpc = "sidecar"
    /\ hasSidecar' = found
    /\ snippet' = SnippetOf(cm, IF found THEN sidecar ELSE NoSidecar)
    /\ mpc' = "snippet"
    /\ UNCHANGED <<cm, mEntry, sidecar, textVars, mainVars, fontVars, styleVars, moreVars>>

NextMeta == EmitSidecar \/ \E found \in BOOLEAN : UploadSnippet(found)

SpecMeta == InitMeta /\ [][NextMeta]_vars

\* ---------------------------------------------------------------------
\* Wrap and layout of one entry under the default style: the lines of the
\* title and of the items, and the y of each line

\* the style of a run whose style document sets no key
DefaultCfg == Resolve(EmptyObj)

\* item k of a list of the given pattern
PatternItem(p, k) ==
    CASE p = "short" -> <<LatinA>>
      [] p = "long" -> <<LatinE, Space, LatinA>>
      [] p = "gaps" -> IF k % 2 = 1 THEN <<Ctl>> ELSE <<LatinA>>
      [] p = "blank" -> IF k = 1 THEN <<Space>> ELSE <<LatinA>>
      [] p = "mixed" -> IF k <= 2 THEN <<LatinE, Space, LatinA>> ELSE <<LatinA>>
Patterns == {"short", "long", "gaps", "blank", "mixed"}
ListLengths == (0..MaxItems) \cup {ItemCap, ItemCap + 1, ItemCap + 8}
LongLists == {[k \in 1..n |-> PatternItem(p, k)] : p \in Patterns, n \in ListLengths}

LayTitleSet == TitleSet \cup {<<LatinE, Space, LatinA, Space, LatinE>>}

InitLayout ==
    /\ TextIdle
    /\ MainIdle
    /\ FontIdle
    /\ StyleIdle
    /\ MetaIdle
    /\ \E t \in LayTitleSet, l \in LongLists : layEntry = [title |-> t, items |-> l]
    /\ layLimT \in LimitSet
    /\ layLimI \in LimitSet
    /\ layCjk \in BOOLEAN
    /\ layTitle = <<>>
    /\ layItems = <<>>
    /\ layY = EmptyObj
    /\ lpc = "entry"
    /\ UpIdle
    /\ SeedIdle
    /\ GenIdle

\* titleLines, rawItems and itemLines of the entry
WrapEntry ==
    /\ lpc = "entry"
    /\ layTitle' = TitleLinesOf(layEntry, layLimT, layCjk)
    /\ layItems' = ItemLinesOf(layEntry, layLimI, layCjk)
    /\ lpc' = "wrapped"
    /\ UNCHANGED <<layEntry, layLimT, layLimI, layCjk, layY, oldVars, upVars, seedVars, genVars>>

\* the y expressions of the title loop and of the item loop
PlaceLines ==
    /\ lpc = "wrapped"
    /\ layY' = [title |-> [k \in 1..Len(layTitle) |-> TitleY(DefaultCfg, k - 1)],
                items |-> [k \in 1..Len(layItems) |-> ItemY(DefaultCfg, k - 1)]]
    /\ lpc' = "placed"
    /\ UNCHANGED <<layEntry, layLimT, layLimI, layCjk, layTitle, layItems, oldVars, upVars, seedVars, genVars>>

NextLayout == WrapEntry \/ PlaceLines

SpecLayout == InitLayout /\ [][NextLayout]_vars

\* ---------------------------------------------------------------------
\* youtube_upload.js: uploadOne's retry loop and main's moves of the files

\* for (let attempt = 1; attempt <= 3; attempt++)
MaxAttempts == 3

\* the outcomes of yt.videos.insert: a response with or without an id, or an
\* error e with e.code and e.response.status (0: not set)
Response(id) == [ok |-> TRUE, id |-> id, err |-> NoErr]
Failure(code, httpStatus, msg) ==
    [ok |-> FALSE, id |-> "",
     err |-> [code |-> code, status |-> httpStatus, message |-> msg]]
InsertOutcomes ==
    { Response("vid"), Response(""),
      Failure(0, 0, "socket hang up"),
      Failure(403, 403, "quotaExceeded"),
      Failure(429, 429, "rateLimitExceeded"),
      Failure(0, 503, "backendError"),
      Failure(600, 600, "unknown") }

\* const code = e?.code || e?.response?.status
CodeOf(e) == IF e.code # 0 THEN e.code ELSE e.status

\* every failure is tried again
retriableAlways(code) == TRUE
\* code === 429 || (code >= 500 && code < 600)
retriable(code) == code = 429 \/ (code >= 500 /\ code < 600)

\* the error the try block ends with, if any: the rejection of insert, or
\* Error("no video id in response")
ThrownBy(out) ==
    IF ~out.ok THEN out.err
    ELSE IF out.id = "" THEN [code |-> 0, status |-> 0,
                              message |-> "no video id in response"]
    ELSE NoErr

\* the outcomes of fsp.mkdir and of safeMove(src, dest): the file is moved,
\* stays where it was (rename and copy failed), or is copied but not unlinked
MkdirOutcomes == {"ok", "throws"}
MoveOutcomes == {"moved", "stays", "copied"}
Moved(dest, how) ==
    CASE how = "moved" -> {dest}
      [] how = "stays" -> {"queue"}
      [] how = "copied" -> {"queue", dest}

InitUpload ==
    /\ TextIdle
    /\ MainIdle
    /\ FontIdle
    /\ StyleIdle
    /\ MetaIdle
    /\ LayIdle
    /\ SeedIdle
    /\ GenIdle
    /\ uMode \in {"file", "batch"}
    /\ uLangOk \in (IF uMode = "file" THEN BOOLEAN ELSE {TRUE})
    /\ uBatch \in (IF uMode = "file" THEN {<<1>>}
                   ELSE {[k \in 1..n |-> k] : n \in 0..MaxBatch})
    /\ ui = 0
    /\ uTries = <<>>
    /\ uVid = ""
    /\ uErr = NoErr
    /\ uOk = {}
    /\ uLoc = [f \in Range(uBatch) |-> {"queue"}]
    /\ uDone = 0
    /\ uReported = -1
    /\ upc = "start"

\* main up to the first file: --file= mode, or pickBatch and the empty batch
StartUpload ==
    /\ upc = "start"
    /\ IF uBatch = <<>>
       THEN /\ upc' = "done"
            /\ ui' = ui
       ELSE /\ upc' = "insert"
            /\ ui' = 1
    /\ UNCHANGED <<uMode, uLangOk, uBatch, uTries, uVid, uErr, uOk, uLoc, uDone,
                   uReported, oldVars, layVars, seedVars, genVars>>

\* one turn of uploadOne's loop: the insert call and the catch block
Insert(out) ==
    /\ upc = "insert"
    /\ uTries' = Append(uTries, out)
    /\ LET attempt == Len(uTries) + 1
           e == ThrownBy(out)
       IN IF e = NoErr
          THEN /\ uVid' = out.id
               /\ uErr' = NoErr
               /\ uOk' = uOk \cup {uBatch[ui]}
               /\ upc' = "settle"
          ELSE IF retriable(CodeOf(e)) /\ attempt < MaxAttempts
          THEN /\ upc' = "insert"
               /\ UNCHANGED <<uVid, uErr, uOk>>
          ELSE /\ uVid' = ""
               /\ uErr' = e
               /\ uOk' = uOk
               /\ upc' = "settle"
    /\ UNCHANGED <<uMode, uLangOk, uBatch, ui, uLoc, uDone, uReported, oldVars, layVars, seedVars, genVars>>

\* main after uploadOne: moveToSent and done++, or the catch block with
\* moveToFailed; then the next file, the end of the loop, or the rejection
Settle(mkSent, mvSent, mkFailed, mvFailed) ==
    /\ upc = "settle"
    /\ LET f == uBatch[ui]
           sentThrows == ~uLangOk \/ mkSent = "throws"
           failedThrows == ~uLangOk \/ mkFailed = "throws"
           toSent == uVid # "" /\ ~sentThrows
           next == IF ui < Len(uBatch) THEN "insert" ELSE "report"
       IN IF toSent
          THEN /\ uLoc' = [uLoc EXCEPT ![f] = Moved("sent", mvSent)]
               /\ uDone' = IF uMode = "batch" THEN uDone + 1 ELSE uDone
               /\ upc' = IF uMode = "file" THEN "done" ELSE next
               /\ ui' = IF uMode = "batch" /\ next = "insert" THEN ui + 1 ELSE ui
          ELSE IF failedThrows
          THEN /\ upc' = "crashed"
               /\ UNCHANGED <<uLoc, uDone, ui>>
          ELSE /\ uLoc' = [uLoc EXCEPT ![f] = Moved("failed", mvFailed)]
               /\ uDone' = uDone
               /\ upc' = IF uMode = "file" THEN "crashed" ELSE next
               /\ ui' = IF uMode = "batch" /\ next = "insert" THEN ui + 1 ELSE ui
    /\ uTries' = IF upc' = "insert" THEN <<>> ELSE uTries
    /\ uVid' = IF upc' = "insert" THEN "" ELSE uVid
    /\ uErr' = IF upc' = "insert" THEN NoErr ELSE uErr
    /\ UNCHANGED <<uMode, uLangOk, uBatch, uOk, uReported, oldVars, layVars, seedVars, genVars>>

\* console.log(`[done] uploaded ${done} file(s) for ${langArg}`)
Report ==
    /\ upc = "report"
    /\ uReported' = uDone
    /\ upc' = "done"
    /\ UNCHANGED <<uMode, uLangOk, uBatch, ui, uTries, uVid, uErr, uOk, uLoc, uDone,
                   oldVars, layVars, seedVars, genVars>>

NextUpload ==
    \/ StartUpload
    \/ \E out \in InsertOutcomes : Insert(out)
    \/ \E mkSent \in MkdirOutcomes, mvSent \in MoveOutcomes,
          mkFailed \in MkdirOutcomes, mvFailed \in MoveOutcomes :
          Settle(mkSent, mvSent, mkFailed, mvFailed)
    \/ Report

SpecUpload == InitUpload /\ [][NextUpload]_vars

\* ---------------------------------------------------------------------
\* seed_to_yaml.js: the choice of the seeds of a run and the used-seeds file

\* the "::" between the category and the text of a key
KeySep == <<Cp.colon, Cp.colon>>

\* `${s.cat}::${s.text}`
KeyOf(seed) == seed.cat \o KeySep \o seed.text

\* String.prototype.indexOf, 1-based (0: not found)
IndexOf(str0, sep) ==
    LET hits == {i \in 1..(Len(str0) - Len(sep) + 1) :
                    SubSeq(str0, i, i + Len(sep) - 1) = sep}
    IN IF hits = {} THEN 0 ELSE CHOOSE i \in hits : \A j \in hits : i <= j

\* const [cat, text] = key.split("::"): the first two pieces of the key
SeedOf(key) ==
    LET i == IndexOf(key, KeySep)
        rest == Drop(key, i + 1)
        j == IndexOf(rest, KeySep)
    IN [cat |-> SubSeq(key, 1, i - 1),
        text |-> IF j = 0 THEN rest ELSE SubSeq(rest, 1, j - 1)]

\* buildRemaining(pool, used)
buildRemaining(pool, usedSeeds) ==
    SelectSeq(pool, LAMBDA sd : \A k \in 1..Len(usedSeeds) : KeyOf(usedSeeds[k]) # KeyOf(sd))

\* unique([...used keys, ...picks keys]).map(key => {cat, text})
newUsed(usedSeeds, picked) ==
    LET keys == uniq([k \in 1..Len(usedSeeds) |-> KeyOf(usedSeeds[k])]
                     \o [k \in 1..Len(picked) |-> KeyOf(picked[k])])
    IN [k \in 1..Len(keys) |-> SeedOf(keys[k])]

\* used after line 393
UsedNow == IF wasReset THEN <<>> ELSE loaded

Seed(c, t) == [cat |-> <<c>>, text |-> t]
\* pools of the lines of two categories; a line may hold "::"
Pools ==
    { <<Seed(Cp.s, <<Cp.a>>), Seed(Cp.s, <<Cp.e>>), Seed(Cp.d, <<Cp.a>>)>>,
      <<Seed(Cp.s, <<Cp.a>>), Seed(Cp.s, <<Cp.a>> \o KeySep \o <<Cp.e>>),
        Seed(Cp.d, <<Cp.colon, Cp.e>>)>> }

InitSeed ==
    /\ TextIdle
    /\ MainIdle
    /\ FontIdle
    /\ StyleIdle
    /\ MetaIdle
    /\ LayIdle
    /\ UpIdle
    /\ GenIdle
    /\ poolAll \in Pools
    /\ usedFile = <<>>
    /\ COUNT = 0
    /\ loaded = <<>>
    /\ wasReset = FALSE
    /\ sRemaining = <<>>
    /\ sPicks = <<>>
    /\ sdpc = "start"

\* main, lines 391-395: loadUsed, buildRemaining, the reset
BeginRun(count) ==
    /\ sdpc \in {"start", "saved"}
    /\ COUNT' = count
    /\ loaded' = usedFile
    /\ LET rem == buildRemaining(poolAll, usedFile)
       IN IF Len(rem) < count
          THEN wasReset' = TRUE /\ sRemaining' = poolAll
          ELSE wasReset' = FALSE /\ sRemaining' = rem
    /\ sPicks' = <<>>
    /\ sdpc' = "sample"
    /\ UNCHANGED <<poolAll, usedFile, oldVars, layVars, upVars, genVars>>

\* the seeds sampleWithCategoryWeights was given
SamplePool == IF wasReset THEN poolAll ELSE buildRemaining(poolAll, loaded)

\* one turn of the loop of sampleWithCategoryWeights: Math.random chooses
\* among the seeds that remain
PickSeed(k) ==
    /\ sdpc = "sample"
    /\ Len(sPicks) < Min(COUNT, Len(SamplePool))
    /\ k \in 1..Len(sRemaining)
    /\ LET pick == sRemaining[k]
       IN /\ sPicks' = Append(sPicks, pick)
          /\ sRemaining' = SelectSeq(sRemaining,
                 LAMBDA sd : ~(sd.cat = pick.cat /\ sd.text = pick.text))
    /\ UNCHANGED <<poolAll, usedFile, COUNT, loaded, wasReset, sdpc, oldVars, layVars, upVars, genVars>>

\* main, lines 407-409: saveUsed(newUsed)
SaveUsed ==
    /\ sdpc = "sample"
    /\ Len(sPicks) >= Min(COUNT, Len(SamplePool))
    /\ usedFile' = newUsed(UsedNow, sPicks)
    /\ sdpc' = "saved"
    /\ UNCHANGED <<poolAll, COUNT, loaded, wasReset, sRemaining, sPicks, oldVars, layVars,
                   upVars, genVars>>

NextSeed ==
    \/ \E count \in 0..MaxCount : BeginRun(count)
    \/ \E k \in 1..Len(poolAll) : PickSeed(k)
    \/ SaveUsed

SpecSeed == InitSeed /\ [][NextSeed]_vars

\* ---------------------------------------------------------------------
\* seed_to_yaml.js: generateOne, the repair of the items and the fallback

MIN_ITEMS == 3
MAX_ITEMS == 7
WORDS_MAX == 10
\* for (let attempt = 0; attempt < 2; attempt++)
GenAttempts == 2
\* base.length > 60 ? base.slice(0, 57) + "..." : base
FallbackTitleMax == 60
FallbackTitleKeep == 57
\* obj.tags.map(x => clean(x)).slice(0, 4)
TagKeep == 4

\* PHYSICAL_VERBS
PHYSICAL_VERBS ==
    << <<115, 116, 97, 110, 100>>,   \* stand
       <<119, 97, 108, 107>>,   \* walk
       <<115, 116, 114, 101, 116, 99, 104>>,   \* stretch
       <<98, 114, 101, 97, 116, 104, 101>>,   \* breathe
       <<100, 114, 105, 110, 107>>,   \* drink
       <<109, 111, 118, 101>>,   \* move
       <<115, 105, 116>>,   \* sit
       <<114, 117, 110>>,   \* run
       <<115, 104, 97, 107, 101>>,   \* shake
       <<106, 117, 109, 112>>,   \* jump
       <<115, 113, 117, 97, 116>>,   \* squat
       <<112, 117, 115, 104>>,   \* push
       <<112, 117, 108, 108>>,   \* pull
       <<104, 121, 100, 114, 97, 116, 101>>,   \* hydrate
       <<115, 109, 105, 108, 101>>,   \* smile
       <<99, 108, 97, 112>> >>   \* clap

\* IMPERATIVE_SEEDS
IMPERATIVE_SEEDS ==
    << <<83, 116, 97, 114, 116>>,   \* Start
       <<83, 116, 111, 112>>,   \* Stop
       <<83, 101, 116>>,   \* Set
       <<75, 101, 101, 112>>,   \* Keep
       <<76, 105, 109, 105, 116>>,   \* Limit
       <<67, 117, 116>>,   \* Cut
       <<79, 112, 101, 110>>,   \* Open
       <<67, 108, 111, 115, 101>>,   \* Close
       <<87, 114, 105, 116, 101>>,   \* Write
       <<80, 108, 97, 110>>,   \* Plan
       <<76, 105, 115, 116>>,   \* List
       <<67, 108, 101, 97, 114>>,   \* Clear
       <<84, 105, 100, 121>>,   \* Tidy
       <<67, 108, 101, 97, 110>>,   \* Clean
       <<77, 117, 116, 101>>,   \* Mute
       <<83, 105, 108, 101, 110, 99, 101>>,   \* Silence
       <<83, 116, 97, 110, 100>>,   \* Stand
       <<87, 97, 108, 107>>,   \* Walk
       <<83, 116, 114, 101, 116, 99, 104>>,   \* Stretch
       <<66, 114, 101, 97, 116, 104, 101>>,   \* Breathe
       <<68, 114, 105, 110, 107>>,   \* Drink
       <<70, 111, 99, 117, 115>>,   \* Focus
       <<77, 111, 118, 101>>,   \* Move
       <<80, 97, 117, 115, 101>>,   \* Pause
       <<83, 104, 97, 114, 101>>,   \* Share
       <<80, 111, 115, 116>>,   \* Post
       <<83, 99, 104, 101, 100, 117, 108, 101>>,   \* Schedule
       <<72, 111, 115, 116>>,   \* Host
       <<67, 101, 108, 101, 98, 114, 97, 116, 101>>,   \* Celebrate
       <<82, 111, 116, 97, 116, 101>> >>   \* Rotate

\* RITUAL_KEYWORDS
RITUAL_KEYWORDS ==
    << <<115, 116, 97, 110, 100, 117, 112>>,   \* standup
       <<99, 104, 101, 99, 107, 45, 105, 110>>,   \* check-in
       <<99, 104, 101, 99, 107, 105, 110>>,   \* checkin
       <<114, 101, 116, 114, 111>>,   \* retro
       <<114, 101, 116, 114, 111, 115, 112, 101, 99, 116, 105, 118, 101>>,   \* retrospective
       <<100, 101, 109, 111>>,   \* demo
       <<115, 121, 110, 99>>,   \* sync
       <<100, 97, 105, 108, 121>>,   \* daily
       <<119, 101, 101, 107, 108, 121>>,   \* weekly
       <<114, 111, 117, 110, 100, 45, 114, 111, 98, 105, 110>>,   \* round-robin
       <<107, 117, 100, 111, 115>>,   \* kudos
       <<115, 104, 111, 117, 116, 111, 117, 116, 115>>,   \* shoutouts
       <<119, 105, 110, 115>>,   \* wins
       <<114, 111, 115, 101>>,   \* rose
       <<116, 104, 111, 114, 110>>,   \* thorn
       <<98, 117, 100>>,   \* bud
       <<105, 99, 101, 98, 114, 101, 97, 107, 101, 114>>,   \* icebreaker
       <<104, 101, 97, 114, 116, 98, 101, 97, 116>>,   \* heartbeat
       <<104, 117, 100, 100, 108, 101>> >>   \* huddle

\* TOOL_KEYWORDS
TOOL_KEYWORDS ==
    << <<83, 108, 97, 99, 107>>,   \* Slack
       <<78, 111, 116, 105, 111, 110>>,   \* Notion
       <<74, 105, 114, 97>>,   \* Jira
       <<77, 105, 114, 111>>,   \* Miro
       <<68, 111, 99, 115>>,   \* Docs
       <<68, 114, 105, 118, 101>>,   \* Drive
       <<67, 97, 108, 101, 110, 100, 97, 114>>,   \* Calendar
       <<90, 111, 111, 109>>,   \* Zoom
       <<77, 101, 101, 116>>,   \* Meet
       <<84, 114, 101, 108, 108, 111>>,   \* Trello
       <<67, 108, 105, 99, 107, 85, 112>>,   \* ClickUp
       <<65, 115, 97, 110, 97>> >>   \* Asana

\* "Start " of imperativeize
StartPrefix == <<83, 116, 97, 114, 116, 32>>

\* "Run a 10-minute standup round-robin"
InjectRitual == <<82, 117, 110, 32, 97, 32, 49, 48, 45, 109, 105, 110, 117, 116, 101, 32, 115, 116, 97, 110, 100, 117, 112, 32, 114, 111, 117, 110, 100, 45, 114, 111, 98, 105, 110>>

\* "Post a daily check-in thread on Slack"
InjectTool == <<80, 111, 115, 116, 32, 97, 32, 100, 97, 105, 108, 121, 32, 99, 104, 101, 99, 107, 45, 105, 110, 32, 116, 104, 114, 101, 97, 100, 32, 111, 110, 32, 83, 108, 97, 99, 107>>

\* "Set a 2-minute timer for focus"
InjectDigit == <<83, 101, 116, 32, 97, 32, 50, 45, 109, 105, 110, 117, 116, 101, 32, 116, 105, 109, 101, 114, 32, 102, 111, 114, 32, 102, 111, 99, 117, 115>>

\* "Stand and stretch your back together"
InjectBody == <<83, 116, 97, 110, 100, 32, 97, 110, 100, 32, 115, 116, 114, 101, 116, 99, 104, 32, 121, 111, 117, 114, 32, 98, 97, 99, 107, 32, 116, 111, 103, 101, 116, 104, 101, 114>>

\* padPool
padPool ==
    << <<71, 105, 118, 101, 32, 116, 104, 114, 101, 101, 32, 107, 117, 100, 111, 115, 32, 105, 110, 32, 116, 101, 97, 109, 32, 99, 104, 97, 110, 110, 101, 108>>,   \* Give three kudos in team channel
       <<83, 104, 97, 114, 101, 32, 111, 110, 101, 32, 116, 105, 110, 121, 32, 119, 105, 110, 32, 98, 101, 102, 111, 114, 101, 32, 108, 117, 110, 99, 104>>,   \* Share one tiny win before lunch
       <<83, 99, 104, 101, 100, 117, 108, 101, 32, 97, 32, 119, 101, 101, 107, 108, 121, 32, 100, 101, 109, 111, 32, 111, 110, 32, 67, 97, 108, 101, 110, 100, 97, 114>>,   \* Schedule a weekly demo on Calendar
       <<76, 105, 109, 105, 116, 32, 109, 101, 101, 116, 105, 110, 103, 115, 32, 116, 111, 32, 50, 53, 32, 109, 105, 110, 117, 116, 101, 115>>,   \* Limit meetings to 25 minutes
       <<87, 114, 105, 116, 101, 32, 111, 110, 101, 45, 108, 105, 110, 101, 32, 103, 111, 97, 108, 32, 105, 110, 32, 78, 111, 116, 105, 111, 110>> >>   \* Write one-line goal in Notion

\* itemsSolo
itemsSolo ==
    << <<83, 101, 116, 32, 97, 32, 50, 45, 109, 105, 110, 117, 116, 101, 32, 116, 105, 109, 101, 114>>,   \* Set a 2-minute timer
       <<68, 114, 105, 110, 107, 32, 97, 32, 103, 108, 97, 115, 115, 32, 111, 102, 32, 119, 97, 116, 101, 114>>,   \* Drink a glass of water
       <<83, 116, 97, 110, 100, 32, 97, 110, 100, 32, 115, 116, 114, 101, 116, 99, 104, 32, 121, 111, 117, 114, 32, 98, 97, 99, 107>>,   \* Stand and stretch your back
       <<66, 114, 101, 97, 116, 104, 101, 32, 115, 108, 111, 119, 108, 121, 32, 102, 111, 114, 32, 51, 48, 32, 115, 101, 99, 111, 110, 100, 115>>,   \* Breathe slowly for 30 seconds
       <<87, 114, 105, 116, 101, 32, 111, 110, 101, 32, 108, 105, 110, 101, 32, 105, 110, 32, 97, 32, 106, 111, 117, 114, 110, 97, 108>> >>   \* Write one line in a journal

\* itemsTeam
itemsTeam ==
    << <<80, 111, 115, 116, 32, 97, 32, 100, 97, 105, 108, 121, 32, 99, 104, 101, 99, 107, 45, 105, 110, 32, 116, 104, 114, 101, 97, 100, 32, 111, 110, 32, 83, 108, 97, 99, 107>>,   \* Post a daily check-in thread on Slack
       <<82, 117, 110, 32, 97, 32, 49, 48, 45, 109, 105, 110, 117, 116, 101, 32, 115, 116, 97, 110, 100, 117, 112, 32, 114, 111, 117, 110, 100, 45, 114, 111, 98, 105, 110>>,   \* Run a 10-minute standup round-robin
       <<71, 105, 118, 101, 32, 116, 104, 114, 101, 101, 32, 107, 117, 100, 111, 115, 32, 105, 110, 32, 116, 101, 97, 109, 32, 99, 104, 97, 110, 110, 101, 108>>,   \* Give three kudos in team channel
       <<76, 105, 109, 105, 116, 32, 109, 101, 101, 116, 105, 110, 103, 115, 32, 116, 111, 32, 50, 53, 32, 109, 105, 110, 117, 116, 101, 115>>,   \* Limit meetings to 25 minutes
       <<83, 116, 97, 110, 100, 32, 97, 110, 100, 32, 115, 116, 114, 101, 116, 99, 104, 32, 116, 111, 103, 101, 116, 104, 101, 114, 32, 102, 111, 114, 32, 54, 48, 32, 115, 101, 99, 111, 110, 100, 115>> >>   \* Stand and stretch together for 60 seconds

\* "Tiny wins to reset your day"
TitleSolo == <<84, 105, 110, 121, 32, 119, 105, 110, 115, 32, 116, 111, 32, 114, 101, 115, 101, 116, 32, 121, 111, 117, 114, 32, 100, 97, 121>>

\* "Tiny team wins to try today"
TitleTeam == <<84, 105, 110, 121, 32, 116, 101, 97, 109, 32, 119, 105, 110, 115, 32, 116, 111, 32, 116, 114, 121, 32, 116, 111, 100, 97, 121>>

\* "..."
Ellipsis == <<46, 46, 46>>

\* "Save and try one today"
CtaSolo == <<83, 97, 118, 101, 32, 97, 110, 100, 32, 116, 114, 121, 32, 111, 110, 101, 32, 116, 111, 100, 97, 121>>

\* "Run free today, upgrade later"
CtaTeam == <<82, 117, 110, 32, 102, 114, 101, 101, 32, 116, 111, 100, 97, 121, 44, 32, 117, 112, 103, 114, 97, 100, 101, 32, 108, 97, 116, 101, 114>>

\* the tags of the solo profile
TagsSolo ==
    << <<109, 105, 110, 100, 115, 101, 116>>,   \* mindset
       <<115, 109, 97, 108, 108, 32, 119, 105, 110, 115>> >>   \* small wins

\* the tags of the team profile
TagsTeam ==
    << <<116, 101, 97, 109>>,   \* team
       <<114, 105, 116, 117, 97, 108>>,   \* ritual
       <<115, 109, 97, 108, 108, 32, 119, 105, 110, 115>> >>   \* small wins

\* F(e), with e computed once
Force(e, F(_)) == CHOOSE r \in {F(v) : v \in {e}} : TRUE

\* stripCtrl: the class is that of stripControls
stripCtrl(s) == SelectSeq(s, LAMBDA c : ~StripClass(c))

\* clean = s => stripCtrl(String(s || "").replace(/ /g, " ")).trim()
clean(s) ==
    Force(s, LAMBDA v :
        Force(stripCtrl([i \in 1..Len(v) |-> IF v[i] = NBSP THEN Space ELSE v[i]]),
              LAMBDA w : trim(w)))

\* the places of seq that pass the test, in order
Places(seq, Test(_, _)) ==
    SelectSeq([i \in 1..Len(seq) |-> i], LAMBDA i : Test(seq, i))

\* a run without white space starts at place i of t, and where it ends
RunStart(t, i) == ~IsSpace(t[i]) /\ (i = 1 \/ IsSpace(t[i - 1]))
RunEnd(t, i) == CHOOSE j \in i..Len(t) : j = Len(t) \/ IsSpace(t[j + 1])

\* t.split(/\s+/) of a trimmed string: the maximal runs without white space
SplitWs(t) ==
    IF t = <<>> THEN << <<>> >>
    ELSE Force(Places(t, RunStart),
               LAMBDA at : [n \in 1..Len(at) |-> SubSeq(t, at[n], RunEnd(t, at[n]))])

\* the same string whatever its case
SameCI(a, b) == Len(a) = Len(b) /\ \A i \in 1..Len(a) : Lower(a[i]) = Lower(b[i])

\* \w of a regular expression without the u flag
WordChar(c) == c \in 48..57 \/ c \in 65..90 \/ c \in 97..122 \/ c = 95

\* new RegExp(`\\b(${list.join("|")})\\b`, "i").test(s)
hasAny(s, list) ==
    \E n \in 1..Len(list), i \in 1..Len(s) :
        LET last == i + Len(list[n]) - 1
        IN /\ last <= Len(s)
           /\ SameCI(SubSeq(s, i, last), list[n])
           /\ i = 1 \/ ~WordChar(s[i - 1])
           /\ last = Len(s) \/ ~WordChar(s[last + 1])

hasDigit(s) == \E i \in 1..Len(s) : s[i] \in 48..57
hasBodyAction(s) == hasAny(s, PHYSICAL_VERBS)
hasRitual(s) == hasAny(s, RITUAL_KEYWORDS)
hasTool(s) == hasAny(s, TOOL_KEYWORDS)

\* Hiragana, Katakana and the Han blocks of the basic plane
CJKChar(c) == c \in 12353..12543 \/ c \in 13312..19903 \/ c \in 19968..40959
hasCJK(s) == \E i \in 1..Len(s) : CJKChar(s[i])

\* the first word without what is not a letter or a hyphen is one of the seeds
isVerbish(t) ==
    \E n \in 1..Len(IMPERATIVE_SEEDS) :
        SameCI(SelectSeq(SplitWs(t)[1], LAMBDA c : c \in 65..90 \/ c \in 97..122 \/ c = 45),
               IMPERATIVE_SEEDS[n])

imperativeize(line) ==
    Force(clean(line),
          LAMBDA t : IF t = <<>> THEN t ELSE IF isVerbish(t) THEN t ELSE StartPrefix \o t)

\* the line as it is, whatever its length
wordTrimNone(line, max) == clean(line)
wordTrim(line, max) ==
    Force(clean(line), LAMBDA t :
        Force(SplitWs(t), LAMBDA ws :
            IF Len(ws) <= max THEN t ELSE JoinSpace(SubSeq(ws, 1, max))))

\* step 1: clean, drop the empty items and the repetitions up to case
FirstCI(seq, i) == \A j \in 1..(i - 1) : ~SameCI(seq[j], seq[i])
CleanItems(rawItems) ==
    Force(SelectSeq([i \in 1..Len(rawItems) |-> clean(rawItems[i])], LAMBDA x : x # <<>>),
          LAMBDA c : Force(Places(c, FirstCI), LAMBDA at : [n \in 1..Len(at) |-> c[at[n]]]))

\* step 2: imperativeize and the cut to WORDS_MAX words
TrimItems(its) == [i \in 1..Len(its) |-> wordTrim(imperativeize(its[i]), WORDS_MAX)]

\* steps 3 and 4: the cues the items lack, put in front
Inject(its, opts) ==
    LET Some(test(_)) == \E i \in 1..Len(its) : test(its[i])
    IN (IF opts.requireBody /\ ~Some(hasBodyAction) THEN <<InjectBody>> ELSE <<>>)
       \o (IF opts.requireDigit /\ ~Some(hasDigit) THEN <<InjectDigit>> ELSE <<>>)
       \o (IF opts.requireTool /\ ~Some(hasTool) THEN <<InjectTool>> ELSE <<>>)
       \o (IF opts.requireRitual /\ ~Some(hasRitual) THEN <<InjectRitual>> ELSE <<>>)
       \o its

\* keep after the five rounds of pushUnique: the items with a ritual, a tool,
\* a body action, a digit, then the rest, each item once
First(seq, i) == \A j \in 1..(i - 1) : seq[j] # seq[i]
Keep(its) ==
    Force(SelectSeq(its, hasRitual) \o SelectSeq(its, hasTool)
              \o SelectSeq(its, hasBodyAction) \o SelectSeq(its, hasDigit) \o its,
          LAMBDA q : Force(Places(q, First), LAMBDA at : [n \in 1..Len(at) |-> q[at[n]]]))

\* step 5: more than MAX_ITEMS items
CapItems(its) == IF Len(its) > MAX_ITEMS THEN Take(Keep(its), MAX_ITEMS) ELSE its

\* step 6: fewer than MIN_ITEMS items
PadItems(its) ==
    IF Len(its) >= MIN_ITEMS THEN its
    ELSE its \o [k \in 1..(MIN_ITEMS - Len(its)) |->
                    wordTrim(imperativeize(padPool[((Len(its) + k - 1) % Len(padPool)) + 1]),
                             WORDS_MAX)]

\* normalizeItems(rawItems, { requireDigit, requireBody, requireRitual, requireTool })
normalizeItems(rawItems, opts) ==
    Force(CleanItems(rawItems), LAMBDA c :
        Force(TrimItems(c), LAMBDA t :
            Force(Inject(t, opts), LAMBDA w :
                Force(CapItems(w), LAMBDA k : PadItems(k)))))

\* the options generateOne and fallbackEntryFrom pass for a profile
OptsOf(profile) ==
    [requireDigit |-> TRUE, requireBody |-> TRUE,
     requireRitual |-> profile = "team", requireTool |-> profile = "team"]

\* what JSON.parse gives for the content of a response; {} when it throws
NullObj == [null |-> TRUE, title |-> <<>>, items |-> <<>>, cta |-> <<>>, tags |-> <<>>]
EmptyJson == [null |-> FALSE, title |-> <<>>, items |-> <<>>, cta |-> <<>>, tags |-> <<>>]
ParseObj(resp) ==
    CASE resp.json = "garbage" -> EmptyJson
      [] resp.json = "null" -> NullObj
      [] OTHER -> [null |-> FALSE, title |-> resp.title, items |-> resp.items,
                   cta |-> resp.cta, tags |-> resp.tags]

\* looksEnglishShort(s)
looksEnglishShort(s) == s # <<>> /\ ~hasCJK(s)

validEnglishEntry(obj) ==
    LET title == clean(obj.title)
        its == SelectSeq([i \in 1..Len(obj.items) |-> clean(obj.items[i])],
                         LAMBDA x : x # <<>>)
    IN /\ ~obj.null
       /\ looksEnglishShort(title)
       /\ its # <<>>
       /\ \A i \in 1..Len(its) : ~hasCJK(its[i])

fallbackEntryFrom(seed, profile) ==
    LET base == IF clean(seed) # <<>> THEN clean(seed)
                ELSE IF profile = "team" THEN TitleTeam ELSE TitleSolo
    IN [title |-> IF Len16(base) > FallbackTitleMax
                  THEN Slice16(base, FallbackTitleKeep) \o Ellipsis ELSE base,
        items |-> normalizeItems(IF profile = "team" THEN itemsTeam ELSE itemsSolo,
                                 OptsOf(profile)),
        cta |-> IF profile = "team" THEN CtaTeam ELSE CtaSolo,
        tags |-> IF profile = "team" THEN TagsTeam ELSE TagsSolo]

\* the entry generateOne builds from a response that validates
EntryOf(obj, profile) ==
    [title |-> clean(obj.title),
     items |-> normalizeItems(obj.items, OptsOf(profile)),
     cta |-> IF clean(obj.cta) # <<>> THEN clean(obj.cta)
             ELSE IF profile = "team" THEN CtaTeam ELSE CtaSolo,
     tags |-> IF obj.tags # <<>>
              THEN Take([i \in 1..Len(obj.tags) |-> clean(obj.tags[i])], TagKeep)
              ELSE IF profile = "team" THEN TagsTeam ELSE TagsSolo]

\* a response of the model: the call rejects, or its content parses or not
Validates(resp) == resp.api /\ validEnglishEntry(ParseObj(resp))

\* "Reset in 1 minute"
RTitle == <<82, 101, 115, 101, 116, 32, 105, 110, 32, 49, 32, 109, 105, 110, 117, 116, 101>>

\* a title in Japanese
RTitleCJK == <<26397, 12398, 32722, 24931>>

\* " Try it now "
RCta == <<32, 84, 114, 121, 32, 105, 116, 32, 110, 111, 119, 32>>

\* five tags
RTags ==
    << <<102, 111, 99, 117, 115>>,   \* focus
       <<32, 99, 97, 108, 109, 32>>,   \*  calm 
       <<114, 101, 115, 101, 116>>,   \* reset
       <<100, 101, 115, 107>>,   \* desk
       <<101, 110, 101, 114, 103, 121>> >>   \* energy

\* three items with a digit, a body action, a ritual and a tool
ItemsGood ==
    << <<87, 97, 108, 107, 32, 50, 32, 109, 105, 110, 117, 116, 101, 115, 32, 111, 117, 116, 115, 105, 100, 101>>,   \* Walk 2 minutes outside
       <<68, 114, 105, 110, 107, 32, 97, 32, 103, 108, 97, 115, 115, 32, 111, 102, 32, 119, 97, 116, 101, 114>>,   \* Drink a glass of water
       <<80, 111, 115, 116, 32, 107, 117, 100, 111, 115, 32, 111, 110, 32, 83, 108, 97, 99, 107, 32, 97, 116, 32, 115, 116, 97, 110, 100, 117, 112>> >>   \* Post kudos on Slack at standup

\* one item
ItemsOne ==
    << <<116, 105, 100, 121, 32, 121, 111, 117, 114, 32, 100, 101, 115, 107>> >>   \* tidy your desk

\* items that clean to nothing
ItemsBlank ==
    << <<32, 32>>,   \*   
       <<160>> >>   \* \xa0

\* an item in Japanese
ItemsCJK ==
    << <<87, 97, 108, 107, 32, 50, 32, 109, 105, 110, 117, 116, 101, 115>>,   \* Walk 2 minutes
       <<27700, 12434, 39154, 12416>> >>   \* \u6c34\u3092\u98f2\u3080

\* one item three times, up to case
ItemsDup ==
    << <<87, 97, 108, 107, 32, 50, 32, 109, 105, 110, 117, 116, 101, 115>>,   \* Walk 2 minutes
       <<119, 97, 108, 107, 32, 50, 32, 109, 105, 110, 117, 116, 101, 115>>,   \* walk 2 minutes
       <<87, 65, 76, 75, 32, 50, 32, 77, 73, 78, 85, 84, 69, 83, 32>> >>   \* WALK 2 MINUTES 

\* eight items of 11 words that differ in the last word
ItemsLong ==
    << <<87, 97, 108, 107, 32, 50, 32, 109, 105, 110, 117, 116, 101, 115, 32, 97, 32, 98, 32, 99, 32, 100, 32, 101, 32, 102, 32, 103, 32, 104>>,   \* Walk 2 minutes a b c d e f g h
       <<87, 97, 108, 107, 32, 50, 32, 109, 105, 110, 117, 116, 101, 115, 32, 97, 32, 98, 32, 99, 32, 100, 32, 101, 32, 102, 32, 103, 32, 105>>,   \* Walk 2 minutes a b c d e f g i
       <<87, 97, 108, 107, 32, 50, 32, 109, 105, 110, 117, 116, 101, 115, 32, 97, 32, 98, 32, 99, 32, 100, 32, 101, 32, 102, 32, 103, 32, 106>>,   \* Walk 2 minutes a b c d e f g j
       <<87, 97, 108, 107, 32, 50, 32, 109, 105, 110, 117, 116, 101, 115, 32, 97, 32, 98, 32, 99, 32, 100, 32, 101, 32, 102, 32, 103, 32, 107>>,   \* Walk 2 minutes a b c d e f g k
       <<87, 97, 108, 107, 32, 50, 32, 109, 105, 110, 117, 116, 101, 115, 32, 97, 32, 98, 32, 99, 32, 100, 32, 101, 32, 102, 32, 103, 32, 108>>,   \* Walk 2 minutes a b c d e f g l
       <<87, 97, 108, 107, 32, 50, 32, 109, 105, 110, 117, 116, 101, 115, 32, 97, 32, 98, 32, 99, 32, 100, 32, 101, 32, 102, 32, 103, 32, 109>>,   \* Walk 2 minutes a b c d e f g m
       <<87, 97, 108, 107, 32, 50, 32, 109, 105, 110, 117, 116, 101, 115, 32, 97, 32, 98, 32, 99, 32, 100, 32, 101, 32, 102, 32, 103, 32, 110>>,   \* Walk 2 minutes a b c d e f g n
       <<87, 97, 108, 107, 32, 50, 32, 109, 105, 110, 117, 116, 101, 115, 32, 97, 32, 98, 32, 99, 32, 100, 32, 101, 32, 102, 32, 103, 32, 111>> >>   \* Walk 2 minutes a b c d e f g o

\* an item of 14 words
ItemsWordy ==
    << <<116, 97, 107, 101, 32, 116, 104, 101, 32, 118, 101, 114, 121, 32, 108, 111, 110, 103, 32, 114, 111, 97, 100, 32, 104, 111, 109, 101, 32, 97, 110, 100, 32, 116, 104, 101, 110, 32, 116, 104, 105, 110, 107, 32, 97, 98, 111, 117, 116, 32, 97, 108, 108, 32, 111, 102, 32, 105, 116, 32, 116, 119, 105, 99, 101>>,   \* take the very long road home and then think about all of it twice
       <<83, 116, 97, 110, 100, 32, 117, 112>> >>   \* Stand up

\* nine short items
ItemsMany ==
    << <<78, 111, 116, 101, 32, 105, 100, 101, 97, 32, 49>>,   \* Note idea 1
       <<78, 111, 116, 101, 32, 105, 100, 101, 97, 32, 50>>,   \* Note idea 2
       <<78, 111, 116, 101, 32, 105, 100, 101, 97, 32, 51>>,   \* Note idea 3
       <<78, 111, 116, 101, 32, 105, 100, 101, 97, 32, 52>>,   \* Note idea 4
       <<78, 111, 116, 101, 32, 105, 100, 101, 97, 32, 53>>,   \* Note idea 5
       <<78, 111, 116, 101, 32, 105, 100, 101, 97, 32, 54>>,   \* Note idea 6
       <<78, 111, 116, 101, 32, 105, 100, 101, 97, 32, 55>>,   \* Note idea 7
       <<78, 111, 116, 101, 32, 105, 100, 101, 97, 32, 56>>,   \* Note idea 8
       <<78, 111, 116, 101, 32, 105, 100, 101, 97, 32, 57>> >>   \* Note idea 9

Content(title, its, cta, tags) ==
    [api |-> TRUE, json |-> "object", title |-> title, items |-> its, cta |-> cta,
     tags |-> tags]
Responses ==
    { [api |-> FALSE, json |-> "object", title |-> <<>>, items |-> <<>>, cta |-> <<>>,
       tags |-> <<>>],
      [api |-> TRUE, json |-> "garbage", title |-> <<>>, items |-> <<>>, cta |-> <<>>,
       tags |-> <<>>],
      [api |-> TRUE, json |-> "null", title |-> <<>>, items |-> <<>>, cta |-> <<>>,
       tags |-> <<>>],
      Content(RTitleCJK, ItemsGood, RCta, RTags),
      Content(RTitle, ItemsBlank, RCta, RTags),
      Content(RTitle, ItemsCJK, RCta, RTags),
      Content(RTitle, ItemsGood, RCta, RTags),
      Content(RTitle, ItemsOne, <<>>, <<>>),
      Content(RTitle, ItemsDup, RCta, <<>>),
      Content(RTitle, ItemsLong, <<>>, RTags),
      Content(RTitle, ItemsWordy, RCta, RTags),
      Content(RTitle, ItemsMany, RCta, RTags) }

\* the texts of the seed main picked: a short one, one of 61 letters, one
\* that cleans to nothing
SeedTexts ==
    { <<Cp.a, Space, Cp.e>>, [i \in 1..(FallbackTitleMax + 1) |-> Cp.x], <<Cp.ctl>> }

InitGen ==
    /\ TextIdle
    /\ MainIdle
    /\ FontIdle
    /\ StyleIdle
    /\ MetaIdle
    /\ LayIdle
    /\ UpIdle
    /\ SeedIdle
    /\ PROFILE \in {"solo", "team"}
    /\ gSeed \in SeedTexts
    /\ gCalls = <<>>
    /\ gOut = EmptyObj
    /\ gFrom = ""
    /\ gEntries = <<>>
    /\ gpc = "ask"

\* one turn of generateOne's loop, and the fallback after the last turn
Ask(resp) ==
    /\ gpc = "ask"
    /\ gCalls' = Append(gCalls, resp)
    /\ LET attempt == Len(gCalls)
           obj == ParseObj(resp)
       IN IF resp.api /\ validEnglishEntry(obj)
          THEN /\ gOut' = EntryOf(obj, PROFILE)
               /\ gFrom' = "model"
               /\ gpc' = "returned"
          ELSE IF attempt + 1 < GenAttempts
          THEN /\ gpc' = "ask"
               /\ UNCHANGED <<gOut, gFrom>>
          ELSE /\ gOut' = fallbackEntryFrom(gSeed, PROFILE)
               /\ gFrom' = "fallback"
               /\ gpc' = "returned"
    /\ UNCHANGED <<PROFILE, gSeed, gEntries, oldVars, layVars, upVars, seedVars>>

\* main: entries.push(e)
PushEntry ==
    /\ gpc = "returned"
    /\ gEntries' = Append(gEntries, gOut)
    /\ gpc' = "pushed"
    /\ UNCHANGED <<PROFILE, gSeed, gCalls, gOut, gFrom, oldVars, layVars, upVars, seedVars>>

NextGen ==
    \/ \E resp \in Responses : Ask(resp)
    \/ PushEntry

SpecGen == InitGen /\ [][NextGen]_vars

\* the console lines with tag t
Logged(t) == SelectSeq(log, LAMBDA l : l.tag = t)

\* C11: when ffmpeg returns a non-zero or missing status for a unit, the
\* render of the unit ends as a failure that reports the font path and the
\* list of text files used, ffmpeg has been invoked exactly once for the
\* unit, and no "[mp4]" line and no sidecar file is produced for it.
C11_RenderFailure ==
    (spawns > 0 /\ pc # "ffmpeg" /\ status # 0) =>
        /\ pc = "failed"
        /\ Logged("[font]") = << [tag |-> "[font]", val |-> <<fontPath>>] >>
        /\ Logged("[texts]") = << [tag |-> "[texts]", val |-> textFiles] >>
        /\ log[Len(log)] = [tag |-> "error", val |-> <<"ffmpeg failed">>]
        /\ spawns = idx
        /\ Len(Logged("[mp4]")) = idx - 1
        /\ \A n \in 1..Len(log) : log[n].val # <<Pad4(idx) \o ".mp4">>
        /\ (Pad4(idx) \o ".json") \notin outputs

\* the second unit of a batch failed with a missing exit status
C11_Witness ==
    /\ pc = "failed"
    /\ status = -1
    /\ idx = 2
    /\ spawns = 2
    /\ Len(textFiles) >= 3

\* C12: units are processed in input order, one at a time: the i-th entry
\* that renders successfully produces exactly the video file and the sidecar
\* file named with i padded to four digits, the sequence numbers strictly
\* increase along the batch and no two entries write the same output file.
C12_SequencedOutputs ==
    LET done == IF pc \in {"loop", "done"} THEN idx ELSE idx - 1 IN
    (pc # "start") =>
        /\ \A n \in 1..Len(rendered) : rendered[n] = n
        /\ Len(rendered) \in {done, done + 1}
        /\ Len(rendered) = done + 1 => pc \in {"sidecar", "failed"}
        /\ outputs = {Pad4(i) \o ".mp4" : i \in 1..Len(rendered)}
                     \cup {Pad4(i) \o ".json" : i \in 1..done}
        /\ Cardinality(outputs) = Len(rendered) + done
        /\ spawns \in {done, done + 1}
        /\ files \subseteq Range(textFiles)

\* a batch of two entries rendered to the end
C12_Witness ==
    /\ pc = "done"
    /\ idx = 2
    /\ outputs = {"0001.mp4", "0001.json", "0002.mp4", "0002.json"}

\* the order of the fallback chain as the specification states it
FallbackChain ==
    << styleFont,
       IF fLang = "ja" THEN "assets/fonts/NotoSansJP-Regular.ttf"
       ELSE IF fLang \in {"en", "es", "pt"} THEN "assets/fonts/NotoSans-Regular.ttf"
       ELSE NoPath,
       "assets/fonts/NotoSans-Regular.ttf",
       "/usr/share/fonts/truetype/noto/NotoSans-Regular.ttf",
       "/usr/share/fonts/truetype/noto/NotoSansDisplay-Regular.ttf",
       "/usr/share/fonts/truetype/noto/NotoSansJP-Regular.otf",
       "/usr/share/fonts/truetype/dejavu/DejaVuSans.ttf" >>

\* C14: font resolution returns the first existing candidate in the order
\* style path, bundled font of the language, bundled English font, system
\* Noto fonts, system DejaVu font; it reports "no font" only when every
\* candidate is absent; and a second resolution on the same file system
\* returns the same path.
C14_FontFallback ==
    /\ fpc \in {"once", "twice"} =>
          \E k \in 1..Len(FallbackChain) :
              /\ FallbackChain[k] = font
              /\ font \in disk
              /\ \A j \in 1..(k - 1) :
                    FallbackChain[j] = NoPath \/ FallbackChain[j] \notin disk
    /\ fpc = "nofont" => \A k \in 1..Len(FallbackChain) : FallbackChain[k] \notin disk
    /\ fpc = "twice" => font = fontPrev

\* a Japanese run whose bundled Japanese font is missing falls back to the
\* bundled English font although a system Noto font exists, twice the same
C14_Witness ==
    /\ fpc = "twice"
    /\ fLang = "ja"
    /\ assets.ja \notin disk
    /\ sysNoto[3] \in disk
    /\ font = assets.en

\* a key is set in a section when the section holds a value other than null
IsSet(sec, k) == k \in DOMAIN sec /\ sec[k] # Null

\* C13: for every style key the resolved value is the language section's
\* value when the key is set there, otherwise the default section's value
\* when it is set there, otherwise the hard-coded default of the field; and
\* resolving leaves the sections of the loaded style document as they were.
C13_StylePrecedence ==
    spc \in {"resolved", "laid"} =>
        /\ \A k \in DOMAIN StyleDefaults :
              cfg[k] = IF IsSet(Section(stLoaded, sLang), k)
                          THEN Section(stLoaded, sLang)[k][1]
                       ELSE IF IsSet(Section(stLoaded, "default"), k)
                          THEN Section(stLoaded, "default")[k][1]
                       ELSE StyleDefaults[k]
        /\ styles = stLoaded

\* C15: for every resolved style and any two lines i < j of the same kind,
\* the vertical origin of line j is strictly greater than that of line i.
C15_GeometryMonotone ==
    spc = "laid" =>
        \A i \in 0..MaxItems, j \in 0..MaxItems :
            i < j => /\ TitleY(cfg, i) < TitleY(cfg, j)
                     /\ ItemY(cfg, i) < ItemY(cfg, j)

\* C16: for every style the renderer runs with, the panel rectangle lies
\* within the canvas (margins >= 0, twice the margin below the canvas
\* dimension, width and height positive) and the text left edge, title top,
\* item start and cta position are non-negative.
C16_PanelWithinCanvas ==
    spc = "laid" =>
        /\ geo.px >= 0 /\ geo.py >= 0
        /\ 2 * cfg.panel_margin_x < cfg.width
        /\ 2 * cfg.panel_margin_y < cfg.height
        /\ geo.pw > 0 /\ geo.ph > 0
        /\ geo.px + geo.pw <= cfg.width
        /\ geo.py + geo.ph <= cfg.height
        /\ geo.ix >= 0 /\ geo.iyTitle >= 0
        /\ geo.iyItemsStart >= 0 /\ geo.iyCta >= 0

\* C17: a set of line blocks whose node count exceeds the maximum is
\* rejected before the rendering engine is invoked: ffmpeg is never started
\* with a graph of more nodes than the maximum.
C17_GraphTooLarge ==
    (spawns = idx /\ pc \in {"sidecar", "failed"}) => Len(parts) <= GraphMax

\* the content title as the sidecar takes it
ContentTitle == normalize(IF mEntry.title # <<>> THEN mEntry.title ELSE DefaultTitle)

\* the number of places of s at which suf occurs
Occurrences(s, suf) ==
    Cardinality({i \in 0..(Len(s) - Len(suf)) : SubSeq(s, i + 1, i + Len(suf)) = suf})

\* C18: when the content title already ends with or contains the configured
\* suffix, the emitted title is the title without a second copy of the
\* suffix; and the sidecar title followed by the upload snippet never holds
\* the suffix twice for a title that did not.
C18_SuffixOnce ==
    (mpc \in {"sidecar", "snippet"} /\ cm.title_suffix # <<>>) =>
        /\ includes(ContentTitle, cm.title_suffix) => sidecar.title = ContentTitle
        /\ (mpc = "snippet" /\ Occurrences(ContentTitle, cm.title_suffix) <= 1) =>
               Occurrences(snippet.title, cm.title_suffix) <= 1

\* the place of the first occurrence of x in seq
FirstPos(seq, x) ==
    CHOOSE i \in 1..Len(seq) : seq[i] = x /\ \A j \in 1..(i - 1) : seq[j] # x

\* out holds no tag twice, at most TagCap tags, all of them tags of src and in
\* the order of their first occurrences in src
TagsOk(out, src) ==
    /\ Len(out) <= TagCap
    /\ src # <<>> => out # <<>>
    /\ \A i \in 1..Len(out) : out[i] \in Range(src)
    /\ \A i \in 1..Len(out), j \in 1..Len(out) :
          i < j => /\ out[i] # out[j]
                   /\ FirstPos(src, out[i]) < FirstPos(src, out[j])

\* the tags an emitted record is to be built from
TagSource == IF mEntry.tags # <<>> THEN mEntry.tags ELSE cm.tags

\* C19: the emitted tags are the entry's tags when that list is non-empty and
\* the channel's tags otherwise; the emitted list holds no tag twice, keeps
\* the order of first occurrence and has at most TagCap elements.
C19_TagsDeduplicated ==
    /\ mpc \in {"sidecar", "snippet"} => TagsOk(sidecar.tags, TagSource)
    /\ mpc = "snippet" =>
          TagsOk(snippet.tags, IF hasSidecar THEN TagSource ELSE cm.tags)

\* C20: the title sent to the platform has at most TitleCap characters and
\* the description at most DescCap, with and without a sidecar and with and
\* without a tags_extra line.
C20_LengthCaps ==
    mpc = "snippet" =>
        /\ Len16(snippet.title) <= TitleCap
        /\ Len16(snippet.description) <= DescCap

\* the item lines that carry the bullet prefix
BulletLines == {k \in 1..Len(layItems) : SubSeq(layItems[k], 1, Len(bullet)) = bullet}

\* the items of the entry whose normalized text is not empty, in input order
NonEmptyItems ==
    SelectSeq(layEntry.items, LAMBDA it : normalize(it) # <<>>)

\* every item of the entry is laid out on one line
OneLineItems ==
    \A k \in 1..Len(NonEmptyItems) :
        Len(wrapByLimit(normalize(NonEmptyItems[k]), layLimI, layCjk)) = 1

C22_ItemsAboveCta ==
    lpc = "placed" =>
        \A k \in 1..Len(layItems) :
            layY.items[k] + DefaultCfg.item_size <= Geometry(DefaultCfg).iyCta

\* the j-th bullet line, the last line of its group, and a line without its prefix
NthBullet(j) ==
    CHOOSE k \in BulletLines : Cardinality({m \in BulletLines : m <= k}) = j
GroupEnd(j) ==
    IF j = Cardinality(BulletLines) THEN Len(layItems) ELSE NthBullet(j + 1) - 1
Unprefixed(k) ==
    Drop(layItems[k], IF k \in BulletLines THEN Len(bullet) ELSE Len(indent(layCjk)))

\* C23: each item contributes its wrapped lines consecutively and in order;
\* exactly the first line of each item carries the bullet prefix and every
\* continuation line the blank indent, so the number of bullet lines equals
\* the number of rendered items.
C23_BulletPerItem ==
    lpc \in {"wrapped", "placed"} =>
        /\ Cardinality(BulletLines) = Len(RawItems(layEntry))
        /\ layItems # <<>> => 1 \in BulletLines
        /\ \A k \in (1..Len(layItems)) \ BulletLines :
              SubSeq(layItems[k], 1, Len(indent(layCjk))) = indent(layCjk)
        /\ \A j \in 1..Cardinality(BulletLines) :
              [m \in 1..(GroupEnd(j) - NthBullet(j) + 1) |-> Unprefixed(NthBullet(j) + m - 1)]
                  = wrapByLimit(RawItems(layEntry)[j], layLimI, layCjk)

\* C28: no title line overlaps the item block: the bottom of the last title
\* line is at most the item start, for a title of any number of lines.
C28_TitleAboveItems ==
    (lpc = "placed" /\ layTitle # <<>>) =>
        layY.title[Len(layTitle)] + DefaultCfg.title_size
            <= Geometry(DefaultCfg).iyItemsStart

\* an insert call that ended with a failure whose status code is 429 or 5xx
RetriableFailure(out) ==
    /\ ~out.ok
    /\ LET c == IF out.err.code # 0 THEN out.err.code ELSE out.err.status
       IN c = 429 \/ c \in 500..599

\* C24: uploadOne calls insert at most 3 times for one file; it makes a
\* further attempt only after a failure whose status code is 429 or in
\* 500..599 (and then always, before the third attempt), rethrows any other
\* failure at once, rethrows the third failure, and returns the id of the
\* first successful attempt without a further call.
C24_UploadRetry ==
    LET n == Len(uTries) IN
    upc \in {"insert", "settle"} =>
        /\ n <= MaxAttempts
        /\ \A k \in 1..(n - 1) : RetriableFailure(uTries[k])
        /\ upc = "insert" => /\ n < MaxAttempts
                             /\ n >= 1 => RetriableFailure(uTries[n])
        /\ upc = "settle" =>
              /\ n >= 1
              /\ IF uVid # ""
                 THEN uTries[n] = Response(uVid) /\ uErr = NoErr
                 ELSE /\ uTries[n] # Response("vid")
                      /\ uTries[n].ok = FALSE => uErr = uTries[n].err
                      /\ ~RetriableFailure(uTries[n]) \/ n = MaxAttempts

\* two retriable failures, then the third attempt returns the id
C24_Witness ==
    /\ upc = "settle"
    /\ Len(uTries) = MaxAttempts
    /\ uTries[1] = Failure(429, 429, "rateLimitExceeded")
    /\ uTries[2] = Failure(0, 503, "backendError")
    /\ uVid = "vid"

\* the files of the batch that lie in exactly the directory d
FilesIn(d) == {f \in Range(uBatch) : uLoc[f] = {d}}

\* C25: in batch mode a file whose upload fails is moved to the failed
\* directory and the remaining files are still processed; after the batch
\* every picked file is out of the queue, in sent or in failed, and the
\* reported count is the number of files moved to sent.
C25_BatchSettled ==
    uMode = "batch" =>
        /\ upc # "crashed"
        /\ upc = "done" /\ uBatch # <<>> =>
              /\ \A f \in Range(uBatch) : uLoc[f] = {"sent"} \/ uLoc[f] = {"failed"}
              /\ \A f \in Range(uBatch) \ uOk : uLoc[f] = {"failed"}
              /\ uReported = Cardinality(FilesIn("sent"))

\* the files main has finished with
Settled ==
    {uBatch[k] : k \in {j \in 1..Len(uBatch) : j < ui \/ upc \in {"report", "done", "crashed"}}}

\* C30: a file for which uploadOne returned a video id ends in sent, never in
\* failed, and is not left in the queue, also when moveToSent throws after
\* the upload.
C30_UploadedNotFailed ==
    \A f \in Settled \cap uOk : uLoc[f] = {"sent"}

\* C29: when the channel has a tags_extra line, the description sent to the
\* platform for an entry that went through render (sidecar description) and
\* then upload (buildSnippet) holds that line exactly once.
C29_TagsExtraOnce ==
    (mpc = "snippet" /\ hasSidecar /\ cm.tags_extra # <<>>) =>
        Occurrences(snippet.description, cm.tags_extra) = 1

\* C26: within one run no seed is picked twice; a seed recorded as used by
\* earlier runs is not picked unless fewer than COUNT unused seeds remained,
\* in which case the used set was reset; and the used set saved at the end of
\* the run holds every seed picked in the run.
C26_SeedsNotRepeated ==
    sdpc \in {"sample", "saved"} =>
        /\ \A i \in 1..Len(sPicks), j \in 1..Len(sPicks) : sPicks[i] = sPicks[j] => i = j
        /\ wasReset <=> Len(buildRemaining(poolAll, loaded)) < COUNT
        /\ ~wasReset => \A i \in 1..Len(sPicks) : sPicks[i] \notin Range(loaded)
        /\ sdpc = "saved" => \A i \in 1..Len(sPicks) : sPicks[i] \in Range(usedFile)

\* the number of words of an item: its maximal runs without white space
WordCount(s) ==
    Cardinality({i \in 1..Len(s) : ~IsSpace(s[i]) /\ (i = 1 \/ IsSpace(s[i - 1]))})

\* C27: generateOne ends with an entry after at most 2 calls of the model:
\* the entry built from the first response that validates, or the fallback
\* entry when both calls failed (rejection, unparsable content, failed
\* validation); the entry has 3 to 7 items of at most 10 words each.
C27_GenerateOne ==
    LET n == Len(gCalls) IN
    /\ n <= GenAttempts
    /\ gpc = "ask" => n < GenAttempts /\ \A k \in 1..n : ~Validates(gCalls[k])
    /\ gpc = "returned" =>
          /\ n >= 1
          /\ \A k \in 1..(n - 1) : ~Validates(gCalls[k])
          /\ IF Validates(gCalls[n])
             THEN gFrom = "model" /\ gOut.title = clean(gCalls[n].title)
             ELSE /\ n = GenAttempts
                  /\ gFrom = "fallback"
                  /\ gOut = fallbackEntryFrom(gSeed, PROFILE)
          /\ Len(gOut.items) \in MIN_ITEMS..MAX_ITEMS
          /\ \A i \in 1..Len(gOut.items) : WordCount(gOut.items[i]) \in 1..WORDS_MAX

\* the second call answers with eight items of 11 words, after a first call
\* that failed: the entry has the three items the repair leaves
C27_Witness ==
    /\ gpc = "returned"
    /\ Len(gCalls) = GenAttempts
    /\ gCalls[2].items = ItemsLong
    /\ gFrom = "model"
    /\ Len(gOut.items) = MIN_ITEMS

====
